---- MODULE Spec2Model ----
(***************************************************************************)
(* The free rigid category of discopy (src/discopy/rigid.py): objects with *)
(* winding numbers, types, layers, diagrams, cups and caps, adjoints,      *)
(* transposition, snake removal and functors.                              *)
(*                                                                         *)
(* Values of the program are immutable, so the model has one register per  *)
(* value a session holds and one action per operation applied to it.       *)
(* An exception is modelled as the value Raised(name): every operator      *)
(* that receives a raised operand returns it, as a Python expression does. *)
(***************************************************************************)
EXTENDS Integers, Sequences, FiniteSets, TLC

VARIABLES cls, v, v0, hist, err, pc, steps, aux, cur

vars == <<cls, v, v0, hist, err, pc, steps, aux, cur>>

(***************************************************************************)
(* Bounds of the inputs the sessions draw.                                 *)
(***************************************************************************)
MaxLen == 2
MaxOps == 2
MaxLayers == 2

Names == {"a", "b"}

Windings == {0 - 1, 0, 1}

(***************************************************************************)
(* Python helpers: slices are 0-based, half-open and clamped, and a        *)
(* negative index counts from the end.                                     *)
(***************************************************************************)
Min(i, j) == IF i < j THEN i ELSE j
Max(i, j) == IF i < j THEN j ELSE i

Index(s, i) == IF i < 0 THEN Max(Len(s) + i, 0) ELSE Min(i, Len(s))

Slice(s, i, j) == SubSeq(s, Index(s, i) + 1, Index(s, j))

Raised(e) == [exc |-> e]
IsRaised(x) == "exc" \in DOMAIN x

NoValue == [none |-> TRUE]

NoCursor == [i |-> 0, moved |-> FALSE]

\* The element of a one-element set.  In The({e(x) : x \in {a}}) the
\* argument a is evaluated once, as Python evaluates it before a call.
The(S) == CHOOSE r \in S : TRUE

(***************************************************************************)
(* Ob: a name and a winding number.                                        *)
(***************************************************************************)
Ob(name, z) == [name |-> name, z |-> z]

ObL(o) == Ob(o.name, o.z - 1)

ObR(o) == Ob(o.name, o.z + 1)

(***************************************************************************)
(* Ty: a sequence of Ob; the adjoint reverses it and adjoints each object. *)
(***************************************************************************)
\* A left adjoint that forgets to reverse the type.
TyL_NoReverse(t) == [i \in 1..Len(t) |-> ObL(t[i])]

TyL(t) == [i \in 1..Len(t) |-> ObL(t[Len(t) + 1 - i])]

\* A right adjoint that forgets to reverse the type.
TyR_NoReverse(t) == [i \in 1..Len(t) |-> ObR(t[i])]

TyR(t) == [i \in 1..Len(t) |-> ObR(t[Len(t) + 1 - i])]

Unit == << >>

(***************************************************************************)
(* Box, Cup, Cap.  A Cup or Cap keeps its two halves (BinaryBoxConstructor)*)
(* and its winding is always 0.  Its name, formatted from the two halves,  *)
(* is the pair of fields (name, left, right) here.                         *)
(***************************************************************************)
Box(name, dom, cod, z) ==
    [kind |-> "Box", name |-> name, dom |-> dom, cod |-> cod, z |-> z]

\* A Cup that accepts the right adjoint only.
Cup_RightOnly(left, right) ==
    IF Len(left) # 1 \/ Len(right) # 1 THEN Raised("ValueError")
    ELSE IF TyR(left) # right THEN Raised("AxiomError")
    ELSE [kind |-> "Cup", name |-> "Cup",
          dom |-> left \o right, cod |-> Unit, z |-> 0,
          left |-> left, right |-> right]

Cup(left, right) ==
    IF Len(left) # 1 \/ Len(right) # 1 THEN Raised("ValueError")
    ELSE IF TyR(left) # right /\ left # TyR(right) THEN Raised("AxiomError")
    ELSE [kind |-> "Cup", name |-> "Cup",
          dom |-> left \o right, cod |-> Unit, z |-> 0,
          left |-> left, right |-> right]

Cap(left, right) ==
    IF Len(left) # 1 \/ Len(right) # 1 THEN Raised("ValueError")
    ELSE IF left # TyR(right) /\ TyR(left) # right THEN Raised("AxiomError")
    ELSE [kind |-> "Cap", name |-> "Cap",
          dom |-> Unit, cod |-> left \o right, z |-> 0,
          left |-> left, right |-> right]

BoxL(b) ==
    CASE b.kind = "Cup" -> Cup(TyL(b.right), TyL(b.left))
      [] b.kind = "Cap" -> Cap(TyL(b.right), TyL(b.left))
      [] OTHER -> Box(b.name, TyL(b.dom), TyL(b.cod), b.z - 1)

\* A Box.r that forgets to move the winding number.
BoxR_KeepsZ(b) ==
    CASE b.kind = "Cup" -> Cup(TyR(b.right), TyR(b.left))
      [] b.kind = "Cap" -> Cap(TyR(b.right), TyR(b.left))
      [] OTHER -> Box(b.name, TyR(b.dom), TyR(b.cod), b.z)

BoxR(b) ==
    CASE b.kind = "Cup" -> Cup(TyR(b.right), TyR(b.left))
      [] b.kind = "Cap" -> Cap(TyR(b.right), TyR(b.left))
      [] OTHER -> Box(b.name, TyR(b.dom), TyR(b.cod), b.z + 1)

(***************************************************************************)
(* Layer: (left, box, right).                                              *)
(***************************************************************************)
Layer(left, box, right) == [left |-> left, box |-> box, right |-> right]

LayerDom(y) == y.left \o y.box.dom \o y.right

LayerCod(y) == y.left \o y.box.cod \o y.right

\* A Layer.l that leaves left on the left and right on the right.
LayerL_NoSwap(y) ==
    LET b == BoxL(y.box)
    IN  IF IsRaised(b) THEN b ELSE Layer(TyL(y.left), b, TyL(y.right))

LayerL(y) ==
    LET b == BoxL(y.box)
    IN  IF IsRaised(b) THEN b ELSE Layer(TyL(y.right), b, TyL(y.left))

LayerR(y) ==
    LET b == BoxR(y.box)
    IN  IF IsRaised(b) THEN b ELSE Layer(TyR(y.right), b, TyR(y.left))

(***************************************************************************)
(* Diagram: layers with a domain and a codomain.  The constructor scans    *)
(* the layers from dom to cod and raises when they do not chain.           *)
(***************************************************************************)
RECURSIVE Scan(_, _, _)
Scan(inside, i, scan) ==
    IF i > Len(inside) THEN [ok |-> TRUE, ty |-> scan]
    ELSE IF LayerDom(inside[i]) # scan THEN [ok |-> FALSE, ty |-> scan]
    ELSE Scan(inside, i + 1, LayerCod(inside[i]))

WellTyped(d) ==
    LET s == Scan(d.inside, 1, d.dom) IN s.ok /\ s.ty = d.cod

Diagram(inside, dom, cod) ==
    LET s == Scan(inside, 1, dom)
    IN  IF ~s.ok \/ s.ty # cod THEN Raised("AxiomError")
        ELSE [inside |-> inside, dom |-> dom, cod |-> cod]

Id(t) == [inside |-> << >>, dom |-> t, cod |-> t]

BoxDiagram(b) ==
    IF IsRaised(b) THEN b
    ELSE [inside |-> <<Layer(Unit, b, Unit)>>, dom |-> b.dom, cod |-> b.cod]

ThenOf(f, g) ==
    IF IsRaised(f) THEN f
    ELSE IF IsRaised(g) THEN g
    ELSE IF f.cod # g.dom THEN Raised("AxiomError")
    ELSE [inside |-> f.inside \o g.inside, dom |-> f.dom, cod |-> g.cod]

Then(f, g) == The({ThenOf(p[1], p[2])
          : p \in {<<f, g>>}})

TensorOf(f, g) ==
    IF IsRaised(f) THEN f
    ELSE IF IsRaised(g) THEN g
    ELSE [inside |->
            [i \in 1..Len(f.inside) |->
                Layer(f.inside[i].left, f.inside[i].box,
                      f.inside[i].right \o g.dom)]
            \o
            [i \in 1..Len(g.inside) |->
                Layer(f.cod \o g.inside[i].left, g.inside[i].box,
                      g.inside[i].right)],
          dom |-> f.dom \o g.dom,
          cod |-> f.cod \o g.cod]

Tensor(f, g) == The({TensorOf(p[1], p[2])
          : p \in {<<f, g>>}})

(***************************************************************************)
(* nesting(factory): nested cups or caps of two composite types.           *)
(***************************************************************************)
Factory(factory, left, right) ==
    IF factory = "Cup" THEN BoxDiagram(Cup(left, right))
    ELSE BoxDiagram(Cap(left, right))

\* A nesting that pairs x[0] with y[0] instead of y[-1].
RECURSIVE Nesting_FirstOfY(_, _, _)
Nesting_FirstOfY(factory, x, y) ==
    IF Len(x) = 0 THEN Id(Slice(x, 0, 0))
    ELSE IF Len(x) = 1 THEN Factory(factory, x, y)
    ELSE IF Len(y) = 0 THEN Raised("IndexError")
    ELSE LET x0 == Slice(x, 0, 1)
             yl == Slice(y, 0, 1)
             head == Factory(factory, x0, yl)
             rest == Tensor(Tensor(Id(x0),
                                   Nesting_FirstOfY(factory, Slice(x, 1, Len(x)),
                                                    Slice(y, 1, Len(y)))),
                            Id(yl))
         IN  IF IsRaised(head) THEN head
             ELSE IF Len(head.dom) # 0 THEN Then(rest, head)
             ELSE Then(head, rest)

RECURSIVE Nesting(_, _, _)
Nesting(factory, x, y) ==
    IF Len(x) = 0 THEN Id(Slice(x, 0, 0))
    ELSE IF Len(x) = 1 THEN Factory(factory, x, y)
    ELSE IF Len(y) = 0 THEN Raised("IndexError")
    ELSE LET x0 == Slice(x, 0, 1)
             yl == Slice(y, Len(y) - 1, Len(y))
             head == Factory(factory, x0, yl)
             rest == Tensor(Tensor(Id(x0),
                                   Nesting(factory, Slice(x, 1, Len(x)),
                                           Slice(y, 0, Len(y) - 1))),
                            Id(yl))
         IN  IF IsRaised(head) THEN head
             ELSE IF Len(head.dom) # 0 THEN Then(rest, head)
             ELSE Then(head, rest)

Cups(left, right) == Nesting("Cup", left, right)

Caps(left, right) == Nesting("Cap", left, right)

(***************************************************************************)
(* Diagram._conjugate, Diagram.l, Diagram.r and Diagram.transpose.         *)
(***************************************************************************)
Conjugate(d, use_left) ==
    LET inside == [i \in 1..Len(d.inside) |->
                      IF use_left THEN LayerL(d.inside[i])
                      ELSE LayerR(d.inside[i])]
        dom == IF use_left THEN TyL(d.dom) ELSE TyR(d.dom)
        cod == IF use_left THEN TyL(d.cod) ELSE TyR(d.cod)
    IN  IF \E i \in 1..Len(inside) : IsRaised(inside[i])
        THEN inside[CHOOSE i \in 1..Len(inside) :
                        /\ IsRaised(inside[i])
                        /\ \A j \in 1..(i - 1) : ~IsRaised(inside[j])]
        ELSE Diagram(inside, dom, cod)

DiagramL(d) == Conjugate(d, TRUE)

DiagramR(d) == Conjugate(d, FALSE)

\* A transpose that bends the wires the other way.
Transpose_OtherSide(d, left) ==
    IF ~left
    THEN Then(Then(Tensor(Id(TyL(d.cod)), Caps(d.dom, TyL(d.dom))),
                   Tensor(Tensor(Id(TyL(d.cod)), d), Id(TyL(d.dom)))),
              Tensor(Cups(TyL(d.cod), d.cod), Id(TyL(d.dom))))
    ELSE Then(Then(Tensor(Caps(TyR(d.dom), d.dom), Id(TyR(d.cod))),
                   Tensor(Tensor(Id(TyR(d.dom)), d), Id(TyR(d.cod)))),
              Tensor(Id(TyR(d.dom)), Cups(d.cod, TyR(d.cod))))

\* A transpose that closes with the cups of the domain.
Transpose_CupsOfDom(d, left) ==
    IF left
    THEN Then(Then(Tensor(Id(TyL(d.cod)), Caps(d.dom, TyL(d.dom))),
                   Tensor(Tensor(Id(TyL(d.cod)), d), Id(TyL(d.dom)))),
              Tensor(Cups(TyL(d.dom), d.dom), Id(TyL(d.dom))))
    ELSE Then(Then(Tensor(Caps(TyR(d.dom), d.dom), Id(TyR(d.cod))),
                   Tensor(Tensor(Id(TyR(d.dom)), d), Id(TyR(d.cod)))),
              Tensor(Id(TyR(d.dom)), Cups(d.dom, TyR(d.dom))))

Transpose(d, left) ==
    IF left
    THEN Then(Then(Tensor(Id(TyL(d.cod)), Caps(d.dom, TyL(d.dom))),
                   Tensor(Tensor(Id(TyL(d.cod)), d), Id(TyL(d.dom)))),
              Tensor(Cups(TyL(d.cod), d.cod), Id(TyL(d.dom))))
    ELSE Then(Then(Tensor(Caps(TyR(d.dom), d.dom), Id(TyR(d.cod))),
                   Tensor(Tensor(Id(TyR(d.dom)), d), Id(TyR(d.cod)))),
              Tensor(Id(TyR(d.dom)), Cups(d.cod, TyR(d.cod))))

(***************************************************************************)
(* The interchanger of the monoidal layer.  Indices are 0-based as in the  *)
(* program: layer i of d is d.inside[i + 1].                               *)
(***************************************************************************)
BoxAt(d, i) == d.inside[i + 1].box

OffsetAt(d, i) == Len(d.inside[i + 1].left)

Prefix(d, i) == [inside |-> Slice(d.inside, 0, i), dom |-> d.dom,
                 cod |-> IF i = 0 THEN d.dom ELSE LayerCod(d.inside[i])]

Suffix(d, i) == [inside |-> Slice(d.inside, i, Len(d.inside)),
                 dom |-> IF i = Len(d.inside) THEN d.cod
                         ELSE LayerDom(d.inside[i + 1]),
                 cod |-> d.cod]

LayerDiagram(y) == [inside |-> <<y>>, dom |-> LayerDom(y), cod |-> LayerCod(y)]

\* Layers i and i + 1 exchanged; box0 is the upper box, box1 the lower one.
InterchangeAdjacent(d, i, left) ==
    LET y0 == d.inside[i + 1]
        y1 == d.inside[i + 2]
        off0 == Len(y0.left)
        off1 == Len(y1.left)
        box0Left ==
            LET middle == Slice(y1.left, Len(y0.left) + Len(y0.box.cod),
                                Len(y1.left))
            IN  <<Layer(y0.left \o y0.box.dom \o middle, y1.box, y1.right),
                  Layer(y0.left, y0.box, middle \o y1.box.cod \o y1.right)>>
        box0Right ==
            LET middle == Slice(y0.left, Len(y1.left) + Len(y1.box.dom),
                                Len(y0.left))
            IN  <<Layer(y1.left, y1.box, middle \o y0.box.dom \o y0.right),
                  Layer(y1.left \o y1.box.cod \o middle, y0.box, y0.right)>>
        swapped ==
            IF left /\ off1 >= off0 + Len(y0.box.cod) THEN box0Left
            ELSE IF off0 >= off1 + Len(y1.box.dom) THEN box0Right
            ELSE IF off1 >= off0 + Len(y0.box.cod) THEN box0Left
            ELSE << >>
    IN  IF swapped = << >> THEN Raised("AxiomError")
        ELSE Then(Then(Then(Prefix(d, i), LayerDiagram(swapped[1])),
                       LayerDiagram(swapped[2])),
                  Suffix(d, i + 2))

\* The box of layer i moved to layer j by adjacent interchanges.
RECURSIVE Interchange(_, _, _, _)
Interchange(d, i, j, left) ==
    IF IsRaised(d) THEN d
    ELSE IF ~(0 <= i /\ i < Len(d.inside)) \/ ~(0 <= j /\ j < Len(d.inside))
    THEN Raised("IndexError")
    ELSE IF i = j THEN d
    ELSE IF j < i
    THEN The({Interchange(x, i - 1, j, left)
          : x \in {InterchangeAdjacent(d, i - 1, left)}})
    ELSE The({Interchange(x, i + 1, j, left)
          : x \in {InterchangeAdjacent(d, i, left)}})

\* The diagram with the given domain, boxes and offsets.
RECURSIVE Decode(_, _, _)
Decode(d, layers, k) ==
    IF IsRaised(d) \/ k > Len(layers) THEN d
    ELSE LET box == layers[k].box
             off == Len(layers[k].left)
             left == Slice(d.cod, 0, off)
             right == Slice(d.cod, off + Len(box.dom), Len(d.cod))
         IN  The({Decode(x, layers, k + 1)
          : x \in {Then(d, Tensor(Tensor(Id(left), BoxDiagram(box)), Id(right)))}})

(***************************************************************************)
(* Snake removal: follow_wire, find_snake and unsnake.                     *)
(***************************************************************************)
RECURSIVE FollowWire(_, _, _, _, _)
FollowWire(d, i, j, lo, ro) ==
    IF ~(i < Len(d.inside) - 1)
    THEN [i |-> Len(d.inside), j |-> j, left |-> lo, right |-> ro]
    ELSE LET k == i + 1
             box == BoxAt(d, k)
             off == OffsetAt(d, k)
         IN  IF off <= j /\ j < off + Len(box.dom)
             THEN [i |-> k, j |-> j, left |-> lo, right |-> ro]
             ELSE IF off <= j
             THEN FollowWire(d, k, j + Len(box.cod) - Len(box.dom),
                             Append(lo, k), ro)
             ELSE FollowWire(d, k, j, lo, Append(ro, k))

\* A snake test that takes any cup the wire runs into, whichever leg it
\* enters.
Candidate_AnyLeg(d, cap, left_snake) ==
    LET wire == IF left_snake THEN OffsetAt(d, cap) ELSE OffsetAt(d, cap) + 1
        f == FollowWire(d, cap, wire, << >>, << >>)
        not_yankable ==
            \/ BoxAt(d, cap).kind # "Cap"
            \/ f.i = Len(d.inside)
            \/ BoxAt(d, f.i).kind # "Cup"
    IN  [found |-> ~not_yankable, cup |-> f.i, cap |-> cap,
         left |-> f.left, right |-> f.right, left_snake |-> left_snake]

\* The snake that starts at the cap of layer cap, on its left or right leg.
Candidate(d, cap, left_snake) ==
    LET wire == IF left_snake THEN OffsetAt(d, cap) ELSE OffsetAt(d, cap) + 1
        f == FollowWire(d, cap, wire, << >>, << >>)
        not_yankable ==
            \/ BoxAt(d, cap).kind # "Cap"
            \/ f.i = Len(d.inside)
            \/ BoxAt(d, f.i).kind # "Cup"
            \/ (left_snake /\ OffsetAt(d, f.i) + 1 # f.j)
            \/ (~left_snake /\ OffsetAt(d, f.i) # f.j)
    IN  [found |-> ~not_yankable, cup |-> f.i, cap |-> cap,
         left |-> f.left, right |-> f.right, left_snake |-> left_snake]

NoSnake == [found |-> FALSE, cup |-> 0, cap |-> 0, left |-> << >>,
            right |-> << >>, left_snake |-> FALSE]

RECURSIVE FindSnakeFrom(_, _)
FindSnakeFrom(d, cap) ==
    IF cap >= Len(d.inside) THEN NoSnake
    ELSE IF BoxAt(d, cap).kind # "Cap" THEN FindSnakeFrom(d, cap + 1)
    ELSE IF Candidate(d, cap, TRUE).found THEN Candidate(d, cap, TRUE)
    ELSE IF Candidate(d, cap, FALSE).found THEN Candidate(d, cap, FALSE)
    ELSE FindSnakeFrom(d, cap + 1)

FindSnake(d) == FindSnakeFrom(d, 0)

\* The boxes of left slid above the cap (left snake), in order.
RECURSIVE SlideAboveCap(_, _, _, _, _)
SlideAboveCap(d, boxes, k, cap, other) ==
    IF IsRaised(d) \/ k > Len(boxes) THEN [d |-> d, at |-> cap, other |-> other]
    ELSE The({SlideAboveCap(x[1], boxes, k + 1, cap + 1, x[2])
          : x \in {<<Interchange(d, boxes[k], cap, FALSE),
                 [n \in 1..Len(other) |->
                     IF other[n] < boxes[k] THEN other[n] + 1 ELSE other[n]]>>}})

\* The boxes slid below the cup, last first.
RECURSIVE SlideBelowCup(_, _, _, _, _)
SlideBelowCup(d, boxes, k, cup, other) ==
    IF IsRaised(d) \/ k < 1 THEN [d |-> d, at |-> cup, other |-> other]
    ELSE The({SlideBelowCup(x[1], boxes, k - 1, cup - 1, x[2])
          : x \in {<<Interchange(d, boxes[k], cup, FALSE),
                 [n \in 1..Len(other) |->
                     IF other[n] > boxes[k] THEN other[n] - 1 ELSE other[n]]>>}})

\* The layers of slid between the cap and the cup, both included, removed.
Yank(slid, cap, cup) ==
    The({Decode(Id(slid.dom), layers, 1)
          : layers \in {Slice(slid.inside, 0, cap)
              \o Slice(slid.inside, cup + 1, Len(slid.inside))}})

UnsnakeSecond(first, s) ==
    LET second ==
            IF s.left_snake
            THEN SlideBelowCup(first.d, first.other, Len(first.other), s.cup, << >>)
            ELSE SlideAboveCap(first.d, first.other, 1, s.cap, << >>)
    IN  IF IsRaised(first.d) THEN first.d
        ELSE The({IF IsRaised(x.d) THEN x.d
                       ELSE IF s.left_snake THEN Yank(x.d, first.at, x.at)
                       ELSE Yank(x.d, x.at, first.at)
          : x \in {second}})

Unsnake(d, s) ==
    The({UnsnakeSecond(first, s)
          : first \in {IF s.left_snake THEN SlideAboveCap(d, s.left, 1, s.cap, s.right)
          ELSE SlideBelowCup(d, s.left, Len(s.left), s.cup, s.right)}})

(***************************************************************************)
(* monoidal.Diagram.normalize: the first interchange at or after layer i   *)
(* that the scan of one pass performs.                                     *)
(***************************************************************************)
CanMove(d, i, left) ==
    LET y0 == d.inside[i + 1]
        y1 == d.inside[i + 2]
    IN  \/ (left /\ Len(y1.left) >= Len(y0.left) + Len(y0.box.cod))
        \/ (~left /\ Len(y0.left) >= Len(y1.left) + Len(y1.box.dom))

Moves(d, i, left) ==
    {k \in i..(Len(d.inside) - 2) : CanMove(d, k, left)}

FirstMove(d, i, left) ==
    CHOOSE k \in Moves(d, i, left) : \A m \in Moves(d, i, left) : k <= m

\* A scan that stops after its first pass.
NoMoreMoves_AfterOnePass(c) == TRUE

\* The scan is over once a whole pass has moved no box.
NoMoreMoves(c) == ~c.moved

\* One pass of the scan from layer i: the diagram it ends on and whether a
\* box moved.
RECURSIVE NormalizePass(_, _, _, _)
NormalizePass(d, i, left, moved) ==
    IF IsRaised(d) \/ Moves(d, i, left) = {}
    THEN [d |-> d, moved |-> moved]
    ELSE The({NormalizePass(n, FirstMove(d, i, left) + 1, left, TRUE)
          : n \in {Interchange(d, FirstMove(d, i, left),
                               FirstMove(d, i, left) + 1, left)}})

\* The last diagram monoidal.Diagram.normalize yields, d when it yields none.
RECURSIVE Normalize(_, _)
Normalize(d, left) ==
    The({IF IsRaised(p.d) \/ NoMoreMoves(p) THEN p.d
                     ELSE Normalize(p.d, left)
          : p \in {NormalizePass(d, 0, left, FALSE)}})

\* The diagram once snake after snake, as find_snake finds them, is removed.
RECURSIVE RemoveSnakes(_)
RemoveSnakes(d) ==
    IF IsRaised(d) \/ ~FindSnake(d).found THEN d
    ELSE RemoveSnakes(Unsnake(d, FindSnake(d)))

\* The final yielded diagram is the normal form.
NormalForm(d, left) ==
    The({IF IsRaised(r) THEN r ELSE Normalize(r, left)
          : r \in {RemoveSnakes(d)}})

(***************************************************************************)
(* The inputs.                                                             *)
(***************************************************************************)
Obs == {Ob(n, z) : n \in Names, z \in Windings}

TypesOfLen(n) == [1..n -> Obs]

Types == UNION {TypesOfLen(n) : n \in 0..MaxLen}

ShortTypes == TypesOfLen(0) \cup TypesOfLen(1)

a0 == <<Ob("a", 0)>>

b0 == <<Ob("b", 0)>>

GenBoxes == {Box("f", dom, cod, 0) : dom \in ShortTypes, cod \in ShortTypes}

SampleBoxes ==
    {Box("f", a0, b0, 0), Box("g", Unit, a0 \o TyR(a0), 0),
     Box("h", b0, Unit, 0)}

AtomCups ==
    {Cup(<<o>>, <<ObR(o)>>) : o \in Obs} \cup {Cup(<<o>>, <<ObL(o)>>) : o \in Obs}

AtomCaps ==
    {Cap(<<o>>, <<ObL(o)>>) : o \in Obs} \cup {Cap(<<o>>, <<ObR(o)>>) : o \in Obs}

(***************************************************************************)
(* x.l and x.r dispatch on the class of x.                                 *)
(***************************************************************************)
Adjoint(c, x, use_left) ==
    CASE c = "Ob" -> IF use_left THEN ObL(x) ELSE ObR(x)
      [] c = "Ty" -> IF use_left THEN TyL(x) ELSE TyR(x)
      [] c = "Layer" -> IF use_left THEN LayerL(x) ELSE LayerR(x)
      [] c = "Box" -> IF use_left THEN BoxL(x) ELSE BoxR(x)
      [] c = "Diagram" -> Conjugate(x, use_left)

Failed(c, x) == c \in {"Layer", "Box", "Diagram"} /\ IsRaised(x)

(***************************************************************************)
(* A session: it constructs a value (cls is its class, v0 the value as     *)
(* constructed, aux the arguments of the constructor) and then applies     *)
(* adjoints to it (hist lists them, v is the value they produced).  A      *)
(* constructor or operation that raises leaves no value: cls = "None" and  *)
(* err names the exception.  pc is "new" until the session has constructed *)
(* its value.                                                              *)
(***************************************************************************)
Args(op, left, right) == [op |-> op, left |-> left, right |-> right]

Bind(c, x, args) ==
    /\ cls' = IF Failed(c, x) THEN "None" ELSE c
    /\ v' = IF Failed(c, x) THEN NoValue ELSE x
    /\ v0' = IF Failed(c, x) THEN NoValue ELSE x
    /\ err' = IF Failed(c, x) THEN x.exc ELSE "none"
    /\ hist' = << >>
    /\ aux' = args
    /\ pc' = "built"
    /\ UNCHANGED <<steps, cur>>

NewOb == pc = "new" /\ \E o \in Obs : Bind("Ob", o, Args("Ob", Unit, Unit))

NewTy == pc = "new" /\ \E t \in Types : Bind("Ty", t, Args("Ty", Unit, Unit))

NewBox == pc = "new" /\ \E b \in GenBoxes : Bind("Box", b, Args("Box", b.dom, b.cod))

NewCup ==
    /\ pc = "new"
    /\ \E l \in ShortTypes, r \in ShortTypes :
        Bind("Box", Cup(l, r), Args("Cup", l, r))

NewCap ==
    /\ pc = "new"
    /\ \E l \in ShortTypes, r \in ShortTypes :
        Bind("Box", Cap(l, r), Args("Cap", l, r))

NewLayer ==
    /\ pc = "new"
    /\ \E l \in ShortTypes, r \in ShortTypes,
       b \in SampleBoxes \cup AtomCups \cup AtomCaps :
        Bind("Layer", Layer(l, b, r), Args("Layer", l, r))

NewId == pc = "new" /\ \E t \in Types : Bind("Diagram", Id(t), Args("Id", t, t))

NewCups ==
    /\ pc = "new"
    /\ \E x \in Types :
        Bind("Diagram", Cups(x, TyR(x)), Args("cups", x, TyR(x)))

NewCaps ==
    /\ pc = "new"
    /\ \E x \in Types :
        Bind("Diagram", Caps(x, TyL(x)), Args("caps", x, TyL(x)))

Size(d) == Len(d.dom) + Len(d.inside)

\* v >> Id(left) @ b @ Id(right), with left the first off wires of v.cod.
ThenBox ==
    /\ cls = "Diagram" /\ hist = << >>
    /\ Size(v) < MaxLayers
    /\ \E b \in SampleBoxes \cup AtomCups, off \in 0..Len(v.cod) :
          LET left == Slice(v.cod, 0, off)
              right == Slice(v.cod, off + Len(b.dom), Len(v.cod))
          IN  Bind("Diagram",
                   Then(v, Tensor(Tensor(Id(left), BoxDiagram(b)), Id(right))),
                   Args("then", left, right))

TransposeOp ==
    /\ cls = "Diagram" /\ hist = << >>
    /\ Size(v) <= MaxLayers
    /\ \E left \in BOOLEAN : Bind("Diagram", Transpose(v, left), Args("transpose", v.dom, v.cod))

Apply(op, x) ==
    /\ cls' = IF Failed(cls, x) THEN "None" ELSE cls
    /\ v' = IF Failed(cls, x) THEN NoValue ELSE x
    /\ err' = IF Failed(cls, x) THEN x.exc ELSE "none"
    /\ hist' = Append(hist, op)
    /\ UNCHANGED <<v0, aux, pc, steps, cur>>

AdjL ==
    /\ cls # "None" /\ Len(hist) < MaxOps
    /\ Apply("l", Adjoint(cls, v, TRUE))

AdjR ==
    /\ cls # "None" /\ Len(hist) < MaxOps
    /\ Apply("r", Adjoint(cls, v, FALSE))

Init ==
    /\ cls = "None" /\ v = NoValue /\ v0 = NoValue
    /\ hist = << >> /\ err = "none" /\ aux = Args("none", Unit, Unit)
    /\ pc = "new" /\ steps = 0 /\ cur = NoCursor

Next ==
    \/ NewOb \/ NewTy \/ NewBox \/ NewCup \/ NewCap \/ NewLayer
    \/ NewId \/ NewCups \/ NewCaps \/ ThenBox \/ TransposeOp
    \/ AdjL \/ AdjR

Spec == Init /\ [][Next]_vars

(***************************************************************************)
(* The normalizer.  normal_form(d) drives the generator snake_removal and  *)
(* returns the last diagram it yields (d itself when it yields nothing).   *)
(* v0 is the diagram given, v the last diagram yielded, steps the number   *)
(* of snakes removed, cur the cursor of the interchanger pass, hist one    *)
(* mark per finished run.  aux names how the first diagram was built.      *)
(***************************************************************************)
AtomTypes == TypesOfLen(1)

\* Diagrams of cups, caps and boxes over the object a, layer by layer.
NormObs == {Ob("a", z) : z \in Windings}

NormBoxes ==
    {Cup(<<o>>, <<ObR(o)>>) : o \in NormObs}
        \cup {Cap(<<o>>, <<ObL(o)>>) : o \in NormObs}
        \cup {Box("f", a0, a0, 0)}

Extensions(d) ==
    {e \in {Then(d, Tensor(Tensor(Id(Slice(d.cod, 0, off)), BoxDiagram(b)),
                          Id(Slice(d.cod, off + Len(b.dom), Len(d.cod)))))
              : b \in NormBoxes, off \in 0..Len(d.cod)} : ~IsRaised(e)}

RECURSIVE Built(_)
Built(n) ==
    IF n = 0 THEN {Id(Unit)} \cup {Id(<<o>>) : o \in NormObs}
    ELSE Built(n - 1) \cup UNION {Extensions(d) : d \in Built(n - 1)}

\* n boxes f, one per layer, on w wires a, at any offsets.
RECURSIVE Stacks(_, _)
Stacks(n, w) ==
    LET wires == [i \in 1..w |-> Ob("a", 0)]
    IN  IF n = 0 THEN {Id(wires)}
        ELSE {Then(d, Tensor(Tensor(Id(Slice(wires, 0, off)),
                                    BoxDiagram(Box("f", a0, a0, 0))),
                             Id(Slice(wires, off + 1, w))))
                : d \in Stacks(n - 1, w), off \in 0..(w - 1)}

\* A closed wire: a cap and the cup that takes its two legs.
Circles ==
    {Then(BoxDiagram(Cap(<<o>>, <<ObL(o)>>)), BoxDiagram(Cup(<<o>>, <<ObL(o)>>)))
        : o \in NormObs}

NormInput(op, x, y, d, tleft) ==
    [op |-> op, left |-> x, right |-> y, d |-> d, tleft |-> tleft]

NormInputs ==
    {NormInput("left_snake", t, TyR(t), Transpose(Id(TyR(t)), TRUE), TRUE)
        : t \in Types}
    \cup {NormInput("right_snake", t, TyL(t), Transpose(Id(TyL(t)), FALSE), FALSE)
        : t \in Types}
    \cup {NormInput("double_snake", A, B, Transpose(Id(A \o B), l), l)
        : A \in AtomTypes, B \in AtomTypes, l \in BOOLEAN}
    \cup {NormInput("two_snakes", A, B,
                    Tensor(Transpose(Id(B), l), Transpose(Id(A), l)), l)
        : A \in AtomTypes, B \in AtomTypes, l \in BOOLEAN}
    \cup {NormInput("double_transpose", b.dom, b.cod,
                    Transpose(Transpose(BoxDiagram(b), l), ~l), l)
        : b \in GenBoxes, l \in BOOLEAN}
    \cup {NormInput("built", d.dom, d.cod, d, FALSE) : d \in Built(MaxLayers)}
    \cup {NormInput("stack", d.dom, d.cod, d, FALSE)
        : d \in Stacks(MaxLayers + 1, MaxLen + 1)}
    \cup {NormInput("circles", d.dom, d.cod, d, FALSE)
        : d \in {Then(c, e) : c \in Circles, e \in Circles}
                \cup {Tensor(c, e) : c \in Circles, e \in Circles}}
    \cup {NormInput("transposed", d.dom, d.cod, Transpose(d, l), l)
        : d \in Built(MaxLayers - 1), l \in BOOLEAN}

InitNorm ==
    /\ cls = "None" /\ v = NoValue /\ v0 = NoValue
    /\ hist = << >> /\ err = "none"
    /\ aux = [op |-> "none", left |-> Unit, right |-> Unit,
              tleft |-> FALSE, nleft |-> FALSE]
    /\ pc = "new" /\ steps = 0 /\ cur = NoCursor

\* A diagram is built and normal_form called on it; there is no run if
\* building it raised.
StartNorm ==
    /\ pc = "new"
    /\ \E in \in NormInputs, left \in BOOLEAN :
          /\ aux' = [op |-> in.op, left |-> in.left, right |-> in.right,
                     tleft |-> in.tleft, nleft |-> left]
          /\ v0' = IF IsRaised(in.d) THEN NoValue ELSE in.d
          /\ v' = v0'
          /\ pc' = IF IsRaised(in.d) THEN "raised" ELSE "snake"
          /\ err' = IF IsRaised(in.d) THEN in.d.exc ELSE "none"
    /\ cls' = "Diagram"
    /\ UNCHANGED <<hist, steps, cur>>

\* One rewrite: the first snake found is straightened and removed.
RemoveSnake ==
    /\ pc = "snake"
    /\ \E s \in {FindSnake(v)} :
          /\ s.found
          /\ \E d \in {Unsnake(v, s)} :
                IF IsRaised(d)
                THEN /\ pc' = "raised" /\ err' = d.exc
                     /\ UNCHANGED <<v, steps>>
                ELSE /\ v' = d /\ steps' = steps + 1
                     /\ UNCHANGED <<pc, err>>
    /\ UNCHANGED <<cls, v0, hist, aux, cur>>

\* No snake is left: the interchanger normalisation starts.
SnakesDone ==
    /\ pc = "snake" /\ ~FindSnake(v).found
    /\ pc' = "interchange" /\ cur' = [cur EXCEPT !.i = 0, !.moved = FALSE]
    /\ UNCHANGED <<cls, v, v0, hist, err, steps, aux>>

\* The next interchange of the current pass.
InterchangeStep ==
    /\ pc = "interchange" /\ Moves(v, cur.i, aux.nleft) # {}
    /\ \E k \in {FirstMove(v, cur.i, aux.nleft)} :
          \E d \in {Interchange(v, k, k + 1, aux.nleft)} :
             IF IsRaised(d)
             THEN /\ pc' = "raised" /\ err' = d.exc
                  /\ UNCHANGED <<v, cur>>
             ELSE /\ v' = d
                  /\ cur' = [i |-> k + 1, moved |-> TRUE]
                  /\ UNCHANGED <<pc, err>>
    /\ UNCHANGED <<cls, v0, hist, steps, aux>>

\* The pass is over: another one if it moved a box, the end otherwise.
EndPass ==
    /\ pc = "interchange" /\ Moves(v, cur.i, aux.nleft) = {}
    /\ IF NoMoreMoves(cur)
       THEN pc' = "done" /\ UNCHANGED cur
       ELSE cur' = [cur EXCEPT !.i = 0, !.moved = FALSE] /\ UNCHANGED pc
    /\ UNCHANGED <<cls, v, v0, hist, err, steps, aux>>

\* normal_form is called on the diagram it returned.
Renormalize ==
    /\ pc = "done" /\ Len(hist) < MaxOps - 1
    /\ v0' = v /\ hist' = Append(hist, "normal_form")
    /\ pc' = "snake" /\ steps' = 0 /\ cur' = NoCursor
    /\ UNCHANGED <<cls, v, err, aux>>

NextNorm ==
    \/ StartNorm \/ RemoveSnake \/ SnakesDone \/ InterchangeStep \/ EndPass \/ Renormalize

SpecNorm == InitNorm /\ [][NextNorm]_vars

\* A call of normal_form runs its loop: no step of it is left pending for ever.
RunStep == RemoveSnake \/ SnakesDone \/ InterchangeStep \/ EndPass

SpecNormFair == SpecNorm /\ WF_vars(RunStep)

(***************************************************************************)
(* The rewriting system behind the normalizer: any removable snake, not    *)
(* only the first one find_snake meets, may be removed at each step.       *)
(***************************************************************************)
Snakes(d) ==
    {s \in {Candidate(d, cap, l) : cap \in 0..(Len(d.inside) - 1), l \in BOOLEAN}
        : s.found}

InitRewrite == InitNorm

RemoveAnySnake ==
    /\ pc = "snake"
    /\ \E s \in Snakes(v) :
          \E d \in {Unsnake(v, s)} :
              IF IsRaised(d)
              THEN /\ pc' = "raised" /\ err' = d.exc
                   /\ UNCHANGED <<v, steps, hist>>
              ELSE /\ v' = d /\ steps' = steps + 1
                   /\ hist' = IF s = FindSnake(v) THEN hist
                              ELSE <<"other">>
                   /\ UNCHANGED <<pc, err>>
    /\ UNCHANGED <<cls, v0, aux, cur>>

\* Once no snake is left, the interchanger normalisation runs as it does
\* in a call of normal_form.
NextRewrite ==
    \/ StartNorm \/ RemoveAnySnake \/ SnakesDone \/ InterchangeStep \/ EndPass

SpecRewrite == InitRewrite /\ [][NextRewrite]_vars

(***************************************************************************)
(* C2.  Adjoint involution: on every constructed Ob, Ty, Layer, Box (Cup   *)
(* and Cap included) and Diagram x, the adjoints raise nothing and         *)
(* x.l.r = x = x.r.l, winding numbers included; and for an Ob a,           *)
(* a.l.l # a and a.r.r # a.                                                *)
(***************************************************************************)
Constructed == pc = "built" /\ (cls # "None" \/ hist # << >>)

C2_AdjointInvolution ==
    /\ Constructed => (cls # "None" /\ err = "none")
    /\ (hist = <<"l", "r">> \/ hist = <<"r", "l">>) => v = v0
    /\ (cls = "Ob" /\ (hist = <<"l", "l">> \/ hist = <<"r", "r">>)) => v # v0
    /\ (cls = "Box" /\ (hist = <<"l", "r">> \/ hist = <<"r", "l">>)) => v.z = v0.z

C2_Witness ==
    /\ cls = "Diagram" /\ hist = <<"l", "r">> /\ v = v0
    /\ Len(v0.inside) >= 2
    /\ \E i \in 1..Len(v0.inside) : v0.inside[i].box.kind = "Cup"
    /\ \E i \in 1..Len(v0.inside) : v0.inside[i].box.kind = "Box"

(***************************************************************************)
(* C3.  For length-1 types left and right, Cup(left, right) and            *)
(* Cap(left, right) are constructed iff left.r = right or left = right.r,  *)
(* that is iff the names agree and the windings differ by exactly 1;       *)
(* otherwise AxiomError is raised and there is no box.  The Cup goes from  *)
(* left ++ right to the unit, the Cap from the unit to left ++ right.      *)
(***************************************************************************)
AreAdjoint(left, right) == TyR(left) = right \/ left = TyR(right)

C3_CupCapConstruction ==
    (aux.op \in {"Cup", "Cap"} /\ Len(aux.left) = 1 /\ Len(aux.right) = 1) =>
        /\ AreAdjoint(aux.left, aux.right) <=>
              /\ aux.left[1].name = aux.right[1].name
              /\ aux.left[1].z - aux.right[1].z \in {1, 0 - 1}
        /\ AreAdjoint(aux.left, aux.right) <=> v0 # NoValue
        /\ (~AreAdjoint(aux.left, aux.right) /\ hist = << >>) =>
              (err = "AxiomError" /\ cls = "None" /\ v = NoValue)
        /\ AreAdjoint(aux.left, aux.right) =>
              /\ v0.kind = aux.op
              /\ v0.dom = IF aux.op = "Cup" THEN aux.left \o aux.right ELSE Unit
              /\ v0.cod = IF aux.op = "Cap" THEN aux.left \o aux.right ELSE Unit

C3_Witness ==
    /\ aux.op = "Cup" /\ Len(aux.left) = 1 /\ Len(aux.right) = 1
    /\ aux.left[1].name = aux.right[1].name
    /\ err = "AxiomError" /\ v0 = NoValue

(***************************************************************************)
(* C4.  cups(x, x.r) raises nothing and is a well-typed diagram from       *)
(* x ++ x.r to the unit with exactly n = len(x) layers, layer k being      *)
(* Cup(x[n-1-k], x[n-1-k].r) between x[:n-1-k] and (x[:n-1-k]).r;          *)
(* caps(x, x.l) is a well-typed diagram from the unit to x ++ x.l with n   *)
(* layers, layer k being Cap(x[k], x[k].l) between x[:k] and (x[:k]).l.    *)
(***************************************************************************)
C4_NestedCupsCaps ==
    /\ aux.op = "cups" =>
          LET x == aux.left
              n == Len(x)
          IN  /\ v0 # NoValue
              /\ v0.dom = x \o TyR(x) /\ v0.cod = Unit
              /\ WellTyped(v0)
              /\ Len(v0.inside) = n
              /\ \A k \in 0..(n - 1) :
                    v0.inside[k + 1] =
                        Layer(Slice(x, 0, n - 1 - k),
                              Cup(<<x[n - k]>>, <<ObR(x[n - k])>>),
                              TyR(Slice(x, 0, n - 1 - k)))
    /\ aux.op = "caps" =>
          LET x == aux.left
              n == Len(x)
          IN  /\ v0 # NoValue
              /\ v0.dom = Unit /\ v0.cod = x \o TyL(x)
              /\ WellTyped(v0)
              /\ Len(v0.inside) = n
              /\ \A k \in 0..(n - 1) :
                    v0.inside[k + 1] =
                        Layer(Slice(x, 0, k),
                              Cap(<<x[k + 1]>>, <<ObL(x[k + 1])>>),
                              TyL(Slice(x, 0, k)))

C4_Witness ==
    /\ aux.op = "cups" /\ Len(aux.left) >= 2
    /\ aux.left[1] # aux.left[2]
    /\ v0 # NoValue /\ Len(v0.inside) = Len(aux.left)

(***************************************************************************)
(* C1.  Snake identity: for every type t, building Id(t.r).transpose(      *)
(* left=True) or Id(t.l).transpose(left=False) and normalizing it raises   *)
(* nothing, and the last diagram the normalizer produces is Id(t), the     *)
(* diagram of no layer with dom = cod = t.                                 *)
(***************************************************************************)
IsSnakeOf ==
    /\ aux.op \in {"left_snake", "right_snake"}
    /\ hist = << >>

C1_SnakeIdentity ==
    IsSnakeOf =>
        /\ pc # "raised"
        /\ pc = "done" =>
              /\ v = Id(aux.left)
              /\ v.inside = << >> /\ v.dom = aux.left /\ v.cod = aux.left

C1_Witness ==
    /\ IsSnakeOf /\ pc = "done"
    /\ Len(aux.left) = MaxLen /\ aux.left[1] # aux.left[MaxLen]
    /\ steps = MaxLen /\ Len(v0.inside) = 2 * MaxLen
    /\ v = Id(aux.left)

(***************************************************************************)
(* C5.  Normalizer termination: every rewrite of snake removal deletes one *)
(* Cap layer and one Cup layer and nothing else, so the number of layers   *)
(* goes down by two; a run makes at most floor(len(d) / 2) rewrites and    *)
(* raises nothing; the diagrams it yields are finitely many and the run    *)
(* always comes to its end, returning a diagram in which no removable      *)
(* snake is left.                                                          *)
(***************************************************************************)
RECURSIVE CountKind(_, _, _)
CountKind(d, kind, i) ==
    IF i >= Len(d.inside) THEN 0
    ELSE (IF BoxAt(d, i).kind = kind THEN 1 ELSE 0) + CountKind(d, kind, i + 1)

Rewritten == steps' = steps + 1

C5_RewriteDeletesSnake ==
    Rewritten =>
        /\ Len(v'.inside) = Len(v.inside) - 2
        /\ CountKind(v', "Cap", 0) = CountKind(v, "Cap", 0) - 1
        /\ CountKind(v', "Cup", 0) = CountKind(v, "Cup", 0) - 1
        /\ CountKind(v', "Box", 0) = CountKind(v, "Box", 0)
        /\ v'.dom = v.dom /\ v'.cod = v.cod

C5_Bounded ==
    /\ pc # "raised"
    /\ pc # "new" =>
          /\ steps <= Len(v0.inside) \div 2
          /\ Len(v.inside) = Len(v0.inside) - 2 * steps
    /\ pc \in {"interchange", "done"} => Snakes(v) = {}

Outcome == IF pc = "raised" THEN Raised(err) ELSE v

C6_Confluence ==
    /\ pc # "raised"
    /\ pc = "done" => Outcome = NormalForm(v0, aux.nleft)

C6_Witness ==
    /\ pc = "done" /\ hist = <<"other">> /\ steps >= 2
    /\ \E i \in 0..(Len(v0.inside) - 1) : BoxAt(v0, i).kind = "Box"
    /\ v = NormalForm(v0, aux.nleft)

(***************************************************************************)
(* C7.  Normal-form idempotence: normal_form called on a diagram that      *)
(* normal_form returned removes no snake, moves no box and returns a       *)
(* diagram equal to the one it was given.                                  *)
(***************************************************************************)
IsSecondRun == Len(hist) >= 1 /\ hist[1] = "normal_form"

C7_Idempotence ==
    IsSecondRun =>
        /\ pc # "raised"
        /\ v = v0 /\ steps = 0 /\ ~cur.moved
        /\ pc = "done" => v = NormalForm(v0, aux.nleft)

C7_Witness ==
    /\ IsSecondRun /\ pc = "done" /\ v = v0
    /\ aux.op = "double_transpose"
    /\ v0 = BoxDiagram(Box("f", aux.left, aux.right, 0))
    /\ aux.left # Unit /\ aux.right # Unit

(***************************************************************************)
(* C8.  For distinct atomic types A and B, Id(A @ B).transpose() and       *)
(* Id(B).transpose() @ Id(A).transpose() are built without error, have the *)
(* same dom and cod and different layers, and their normal forms are       *)
(* equal; so it is for transpose(left=True).                               *)
(***************************************************************************)
DoubleSnake == Transpose(Id(aux.left \o aux.right), aux.tleft)

IsTwoSnakes ==
    /\ aux.op = "two_snakes" /\ hist = << >>
    /\ aux.left # aux.right

C8_TwoSnakes ==
    IsTwoSnakes =>
        /\ pc # "raised"
        /\ ~IsRaised(DoubleSnake)
        /\ v0.dom = DoubleSnake.dom /\ v0.cod = DoubleSnake.cod
        /\ v0 # DoubleSnake /\ v0.inside # DoubleSnake.inside
        /\ Len(v0.inside) = Len(DoubleSnake.inside)
        /\ pc = "done" => v = NormalForm(DoubleSnake, aux.nleft)

C8_Witness ==
    /\ IsTwoSnakes /\ pc = "done" /\ aux.tleft /\ steps = 2
    /\ aux.left[1].name = aux.right[1].name
    /\ v = NormalForm(DoubleSnake, aux.nleft)
    /\ v = Id(TyL(aux.left \o aux.right))

(***************************************************************************)
(* rigid.Functor.  A functor F has an object map ob, from names to types,  *)
(* and an arrow map ar, here defined on the boxes of winding 0 whose name  *)
(* is in F.names: ar sends the box k to a diagram from F(k.dom) to         *)
(* F(k.cod), of one layer, or of two when F.deep.                          *)
(***************************************************************************)
\* hasattr(self.cod.ob, 'l' if other.z < 0 else 'r'): F.adjoints names the
\* adjoints the types of the target category have.
HasAdjoint(F, o) == (IF o.z < 0 THEN "l" ELSE "r") \in F.adjoints

\* t[::-1]
RECURSIVE Reversed(_)
Reversed(t) ==
    IF Len(t) = 0 THEN << >>
    ELSE Append(Reversed(Slice(t, 1, Len(t))), t[1])

\* A functor that asks the target for the adjoint it will not use.
RECURSIVE FunctorOb_OtherAdjoint(_, _)
FunctorOb_OtherAdjoint(F, o) ==
    IF o.z = 0 THEN F.ob[o.name]
    ELSE IF (IF o.z < 0 THEN "r" ELSE "l") \notin F.adjoints
         THEN Reversed(F.ob[o.name])
    ELSE IF o.z < 0 THEN TyL(FunctorOb_OtherAdjoint(F, ObR(o)))
    ELSE TyR(FunctorOb_OtherAdjoint(F, ObL(o)))

RECURSIVE FunctorOb(_, _)
FunctorOb(F, o) ==
    IF o.z = 0 THEN F.ob[o.name]
    ELSE IF ~HasAdjoint(F, o) THEN Reversed(F.ob[o.name])
    ELSE IF o.z < 0 THEN TyL(FunctorOb(F, ObR(o)))
    ELSE TyR(FunctorOb(F, ObL(o)))

\* The calls of F on objects that F(o) makes after the first: self(other.r),
\* self(other.l) or self(Ob(other.name, z=0)).
RECURSIVE ObCalls(_, _)
ObCalls(F, o) ==
    IF o.z = 0 THEN 0
    ELSE IF ~HasAdjoint(F, o) THEN 1
    ELSE 1 + ObCalls(F, IF o.z < 0 THEN ObR(o) ELSE ObL(o))

\* The calls of F on an object that F(t) makes: one for each object of t,
\* and those each of them makes in turn.
RECURSIVE TyCalls(_, _)
TyCalls(F, t) ==
    IF Len(t) = 0 THEN 0
    ELSE 1 + ObCalls(F, t[1]) + TyCalls(F, Slice(t, 1, Len(t)))

RECURSIVE FunctorTy(_, _)
FunctorTy(F, t) ==
    IF Len(t) = 0 THEN Unit
    ELSE FunctorOb(F, t[1]) \o FunctorTy(F, Slice(t, 1, Len(t)))

ImageName(name) ==
    CASE name = "f" -> "Ff" [] name = "g" -> "Fg" [] OTHER -> "Fh"

ArImage(F, k) ==
    LET dom == FunctorTy(F, k.dom)
        cod == FunctorTy(F, k.cod)
        image == BoxDiagram(Box(ImageName(k.name), dom, cod, 0))
    IN  IF F.deep /\ Len(cod) > 0
        THEN Then(image, Tensor(BoxDiagram(Box("u", Slice(cod, 0, 1),
                                               Slice(cod, 0, 1), 0)),
                                Id(Slice(cod, 1, Len(cod)))))
        ELSE image

\* self.ar[box]: the mapping has the boxes of winding 0 only.
ArLookup(F, k) ==
    IF k.z = 0 /\ k.name \in F.names THEN ArImage(F, k) ELSE Raised("KeyError")

\* The winding of b taken off: .l z times when z > 0, .r -z times when z < 0.
RECURSIVE Strip(_, _, _)
Strip(b, z, n) ==
    IF n = 0 THEN b
    ELSE Strip(IF z > 0 THEN BoxL(b) ELSE BoxR(b), z, n - 1)

\* A functor that puts the winding back with the adjoint that took it off.
RECURSIVE Rewind_SameSide(_, _, _)
Rewind_SameSide(d, z, n) ==
    IF IsRaised(d) \/ n = 0 THEN d
    ELSE Rewind_SameSide(IF z > 0 THEN DiagramL(d) ELSE DiagramR(d), z, n - 1)

\* The winding put back on the image: .r z times when z > 0, .l otherwise.
RECURSIVE Rewind(_, _, _)
Rewind(d, z, n) ==
    IF IsRaised(d) \/ n = 0 THEN d
    ELSE Rewind(IF z < 0 THEN DiagramL(d) ELSE DiagramR(d), z, n - 1)

Abs(z) == IF z < 0 THEN 0 - z ELSE z

\* The box the arrow mapping is asked for, none for a Cup or a Cap.
LookupKeys(b) ==
    IF b.kind # "Box" THEN << >>
    ELSE IF b.z = 0 THEN <<b>>
    ELSE <<Strip(b, b.z, Abs(b.z))>>

FunctorBox(F, b) ==
    CASE b.kind = "Cup" ->
            Cups(FunctorTy(F, Slice(b.dom, 0, 1)),
                 FunctorTy(F, Slice(b.dom, 1, Len(b.dom))))
      [] b.kind = "Cap" ->
            Caps(FunctorTy(F, Slice(b.cod, 0, 1)),
                 FunctorTy(F, Slice(b.cod, 1, Len(b.cod))))
      [] OTHER ->
            IF b.z = 0 THEN ArLookup(F, b)
            ELSE Rewind(ArLookup(F, Strip(b, b.z, Abs(b.z))), b.z, Abs(b.z))

FunctorLayer(F, y) ==
    Tensor(Tensor(Id(FunctorTy(F, y.left)), FunctorBox(F, y.box)),
           Id(FunctorTy(F, y.right)))

\* id(F(dom)).then(F(layer), ...) over the first n layers of d.
RECURSIVE FunctorFold(_, _, _)
FunctorFold(F, d, n) ==
    IF n = 0 THEN Id(FunctorTy(F, d.dom))
    ELSE Then(FunctorFold(F, d, n - 1), FunctorLayer(F, d.inside[n]))

FunctorDiagram(F, d) == FunctorFold(F, d, Len(d.inside))

(***************************************************************************)
(* function.py: Dim, Function and PythonFunctor.  A Dim is the record of   *)
(* its dimension, a Function its name, domain and codomain.  Where the     *)
(* code accepts an int or a Dim, an int n is given as PyInt(n).            *)
(***************************************************************************)
\* Dim(x): a non-negative integer is expected.
Dim(x) == IF x < 0 THEN Raised("ValueError") ELSE [dim |-> x]

IsDim(x) == "dim" \in DOMAIN x

PyInt(n) == [int |-> n]

\* self @ other, and self + other: Dim(self.dim + other.dim)
DimMatmul(d, e) == Dim(d.dim + e.dim)

\* The decimal digits of an int, as '{}'.format writes them.
RECURSIVE IntStr(_)
IntStr(n) ==
    LET Digit(k) ==
            CASE k = 0 -> "0" [] k = 1 -> "1" [] k = 2 -> "2" [] k = 3 -> "3"
              [] k = 4 -> "4" [] k = 5 -> "5" [] k = 6 -> "6" [] k = 7 -> "7"
              [] k = 8 -> "8" [] k = 9 -> "9"
    IN  IF n < 0 THEN "-" \o IntStr(0 - n)
        ELSE IF n < 10 THEN Digit(n)
        ELSE IntStr(n \div 10) \o Digit(n % 10)

\* "Dim({})".format(self.dim)
DimRepr(d) == "Dim(" \o IntStr(d.dim) \o ")"

\* '{}'.format(x) of a Dim or of an int.
Format(x) == IF IsDim(x) THEN DimRepr(x) ELSE IntStr(x.int)

Function(name, dom, cod) == [name |-> name, dom |-> dom, cod |-> cod]

\* name = 'Id({})'.format(dim)
IdName(dim) == "Id(" \o Format(dim) \o ")"

\* dom = dim if isinstance(dim, Dim) else Dim(dim)
FunctionId(dim) ==
    LET dom == IF IsDim(dim) THEN dim ELSE Dim(dim.int)
    IN  IF IsRaised(dom) THEN dom ELSE Function(IdName(dim), dom, dom)

FunctionThen(f, g) ==
    IF IsRaised(f) THEN f
    ELSE IF IsRaised(g) THEN g
    ELSE IF f.cod.dim # g.dom.dim THEN Raised("AxiomError")
    ELSE Function(f.name \o " >> " \o g.name, f.dom, g.cod)

FunctionTensor(f, g) ==
    IF IsRaised(f) THEN f
    ELSE IF IsRaised(g) THEN g
    ELSE Function(f.name \o " @ " \o g.name,
                  DimMatmul(f.dom, g.dom), DimMatmul(f.cod, g.cod))

\* sum([self.ob[Ty(x)] for x in diagram], Dim(0))
RECURSIVE PythonTy(_, _)
PythonTy(F, t) ==
    IF Len(t) = 0 THEN Dim(0)
    ELSE DimMatmul(PythonTy(F, Slice(t, 0, Len(t) - 1)),
                   Dim(F.dim[t[Len(t)].name]))

PythonBox(F, b) ==
    IF b.name \in F.names
    THEN Function(b.name, PythonTy(F, b.dom), PythonTy(F, b.cod))
    ELSE Raised("KeyError")

\* scan = scan[:off] + box.cod + scan[off + len(box.dom):]
ScanNext(scan, box, off) ==
    Slice(scan, 0, off) \o box.cod \o Slice(scan, off + Len(box.dom), Len(scan))

\* id_l @ self(box) @ id_r
PythonLayer(F, scan, box, off) ==
    FunctionTensor(
        FunctionTensor(FunctionId(PythonTy(F, Slice(scan, 0, off))),
                       PythonBox(F, box)),
        FunctionId(PythonTy(F, Slice(scan, off + Len(box.dom), Len(scan)))))

\* scan and result after the first n boxes of d.
RECURSIVE PythonFold(_, _, _)
PythonFold(F, d, n) ==
    IF n = 0
    THEN [scan |-> d.dom, result |-> FunctionId(PythonTy(F, d.dom))]
    ELSE LET p == PythonFold(F, d, n - 1)
             box == BoxAt(d, n - 1)
             off == OffsetAt(d, n - 1)
         IN  [scan |-> ScanNext(p.scan, box, off),
              result |-> FunctionThen(p.result,
                                      PythonLayer(F, p.scan, box, off))]

\* F(x) for x a Box or a Diagram.  A Box is looked up in the arrow map, and
\* the test for a Box comes first: the fold is for a Diagram that is no Box.
PythonCall(F, x) ==
    IF "kind" \in DOMAIN x THEN PythonBox(F, x)
    ELSE PythonFold(F, x, Len(x.inside)).result

\* f == g for two Functions: a Function is a box, and boxes are equal when
\* their names, domains and codomains are.
FunctionEq(f, g) == f.name = g.name /\ f.dom = g.dom /\ f.cod = g.cod

(***************************************************************************)
(* The functors and what they are applied to.                              *)
(***************************************************************************)
BoxWindings == {0 - 2, 0 - 1, 0, 1, 2}

Functors ==
    {[ob |-> [n \in Names |-> <<Ob(n, 0)>>],
      dim |-> [n \in Names |-> 1],
      names |-> {"f", "g", "h"}, deep |-> FALSE, adjoints |-> {"l", "r"}],
     [ob |-> [n \in Names |->
                IF n = "a" THEN <<Ob("b", 0), Ob("a", 1)>> ELSE Unit],
      dim |-> [n \in Names |-> IF n = "a" THEN 2 ELSE 0],
      names |-> {"f", "g"}, deep |-> TRUE, adjoints |-> {"l", "r"}],
     [ob |-> [n \in Names |->
                IF n = "a" THEN <<Ob("a", 0 - 1)>> ELSE a0 \o b0],
      dim |-> [n \in Names |-> IF n = "a" THEN 1 ELSE 2],
      names |-> {"f", "g", "h"}, deep |-> TRUE, adjoints |-> {"l", "r"}]}

\* Functors into categories whose types lack an adjoint, or both.
PlainFunctors ==
    {[ob |-> [n \in Names |->
                IF n = "a" THEN <<Ob("b", 0), Ob("a", 1)>> ELSE <<Ob(n, 0)>>],
      dim |-> [n \in Names |-> IF n = "a" THEN 2 ELSE 1],
      names |-> {"f", "g", "h"}, deep |-> FALSE, adjoints |-> A]
        : A \in {{}, {"l"}, {"r"}}}

FunctorObs == {Ob(n, z) : n \in Names, z \in BoxWindings}

FunctorBoxes ==
    {Box(n, dom, cod, z) : n \in {"f", "h"}, dom \in ShortTypes,
                           cod \in ShortTypes, z \in BoxWindings}
        \cup AtomCups \cup AtomCaps

\* The boxes of the diagrams a rigid functor is applied to.
LayerBoxes ==
    {Box("f", a0, b0, 0), BoxR(Box("f", a0, b0, 0)), BoxL(Box("f", a0, b0, 0)),
     Box("h", b0, Unit, 0), Cup(a0, TyR(a0)), Cap(a0, TyL(a0)),
     Cup(TyL(b0), b0)}

\* d with one more layer, a box of boxes at any offset where it fits.
Extended(d, boxes) ==
    {e \in {Then(d, Tensor(Tensor(Id(Slice(d.cod, 0, off)), BoxDiagram(b)),
                          Id(Slice(d.cod, off + Len(b.dom), Len(d.cod)))))
              : b \in boxes, off \in 0..Len(d.cod)} : ~IsRaised(e)}

\* The diagrams of at most n layers over the given boxes and roots.
RECURSIVE Grown(_, _, _)
Grown(n, boxes, roots) ==
    IF n = 0 THEN {Id(t) : t \in roots}
    ELSE Grown(n - 1, boxes, roots)
           \cup UNION {Extended(d, boxes) : d \in Grown(n - 1, boxes, roots)}

RigidRoots == {b.dom : b \in LayerBoxes} \cup {b.cod : b \in LayerBoxes}

RigidDiagrams(n) == Grown(n, LayerBoxes, RigidRoots)

\* The boxes and diagrams a PythonFunctor is applied to: no winding.
PythonBoxes ==
    {Box("f", a0, b0, 0), Box("g", b0, a0 \o a0, 0), Box("h", b0, Unit, 0)}

PythonDiagrams(n) == Grown(n, PythonBoxes, {Unit, a0, b0, a0 \o b0})

\* The second operands of a composition: a Box of boxes itself, or an
\* identity diagram.
Seconds(boxes) == boxes \cup {Id(a0), Id(Unit)}

\* f >> g or f @ g.  A Box g enters as the diagram of its one layer.
Composite(op, f, g) ==
    LET d == IF "kind" \in DOMAIN g THEN BoxDiagram(g) ELSE g
    IN  IF op = "then" THEN Then(f, d) ELSE Tensor(f, d)

\* The codomain the first i layers of d reach.
Reached(d, i) == IF i = 0 THEN d.dom ELSE LayerCod(d.inside[i])

(***************************************************************************)
(* Sessions of functor application.  aux names the functor, what it is     *)
(* applied to and the target category; v0 is the diagram it is applied to, *)
(* v the image built so far, cur the position of the fold and, for a       *)
(* PythonFunctor, its scan; hist lists the boxes asked of the arrow map.   *)
(***************************************************************************)
Call(op, target, F, f, g) ==
    [op |-> op, target |-> target, F |-> F, f |-> f, g |-> g]

Position(i, scan) == [i |-> i, scan |-> scan]

InitFunctor ==
    /\ cls = "None" /\ v = NoValue /\ v0 = NoValue
    /\ hist = << >> /\ err = "none"
    /\ aux = Call("none", "none", NoValue, NoValue, NoValue)
    /\ pc = "new" /\ steps = 0 /\ cur = Position(0, Unit)

\* F(x), computed at once.
Called(c, x, keys, call) ==
    /\ cls' = IF IsRaised(x) THEN "None" ELSE c
    /\ v' = IF IsRaised(x) THEN NoValue ELSE x
    /\ err' = IF IsRaised(x) THEN x.exc ELSE "none"
    /\ pc' = IF IsRaised(x) THEN "raised" ELSE "called"
    /\ hist' = keys
    /\ aux' = call
    /\ UNCHANGED <<v0, steps, cur>>

\* F(x) for an object or a type x: a type, and no arrow is looked up.
\* steps counts the calls of F on an object made inside the call.
CalledTy(t, n, call) ==
    /\ cls' = "Ty" /\ v' = t /\ pc' = "called" /\ aux' = call /\ steps' = n
    /\ UNCHANGED <<v0, hist, err, cur>>

CallOb ==
    /\ pc = "new"
    /\ \E F \in Functors \cup PlainFunctors, o \in FunctorObs :
          CalledTy(FunctorOb(F, o), ObCalls(F, o), Call("ob", "rigid", F, o, o))

CallTy ==
    /\ pc = "new"
    /\ \E F \in Functors, t \in Types :
          CalledTy(FunctorTy(F, t), TyCalls(F, t),
                   Call("ty", "rigid", F, t, t))

CallBox ==
    /\ pc = "new"
    /\ \E F \in Functors, b \in FunctorBoxes :
          Called("Diagram", FunctorBox(F, b), LookupKeys(b),
                 Call("box", "rigid", F, b, b))

\* F is applied to f >> g or to f @ g: the fold starts on the identity.
StartFold(target, F, op, f, g) ==
    /\ ~IsRaised(Composite(op, f, g))
    /\ v0' = Composite(op, f, g)
    /\ v' = IF target = "rigid" THEN Id(FunctorTy(F, v0'.dom))
            ELSE FunctionId(PythonTy(F, v0'.dom))
    /\ cur' = Position(0, v0'.dom)
    /\ aux' = Call(op, target, F, f, g)
    /\ cls' = IF target = "rigid" THEN "Diagram" ELSE "Function"
    /\ pc' = "fold"
    /\ UNCHANGED <<hist, err, steps>>

CallDiagram ==
    /\ pc = "new"
    /\ \E F \in Functors, op \in {"then", "tensor"},
          f \in RigidDiagrams(MaxLayers - 1), g \in Seconds(LayerBoxes) :
             StartFold("rigid", F, op, f, g)

CallPython ==
    /\ pc = "new"
    /\ \E F \in Functors, op \in {"then", "tensor"},
          f \in PythonDiagrams(MaxLayers - 1), g \in Seconds(PythonBoxes) :
             StartFold("python", F, op, f, g)

\* One layer more: the image so far, then the image of the layer.  The
\* arrow map has been asked for the layer's box also when the layer raises.
Folded(d, i, scan, keys) ==
    /\ hist' = hist \o keys
    /\ IF IsRaised(d)
       THEN /\ pc' = "raised" /\ err' = d.exc /\ cls' = "None"
            /\ UNCHANGED <<v, cur>>
       ELSE /\ v' = d /\ cur' = Position(i, scan)
            /\ UNCHANGED <<pc, err, cls>>

FunctorStep ==
    /\ pc = "fold" /\ aux.target = "rigid" /\ cur.i < Len(v0.inside)
    /\ LET y == v0.inside[cur.i + 1]
       IN  Folded(Then(v, FunctorLayer(aux.F, y)), cur.i + 1, LayerCod(y),
                  LookupKeys(y.box))
    /\ UNCHANGED <<v0, steps, aux>>

PythonStep ==
    /\ pc = "fold" /\ aux.target = "python" /\ cur.i < Len(v0.inside)
    /\ LET box == BoxAt(v0, cur.i)
           off == OffsetAt(v0, cur.i)
       IN  Folded(FunctionThen(v, PythonLayer(aux.F, cur.scan, box, off)),
                  cur.i + 1, ScanNext(cur.scan, box, off), <<box>>)
    /\ UNCHANGED <<v0, steps, aux>>

FoldEnd ==
    /\ pc = "fold" /\ cur.i = Len(v0.inside)
    /\ pc' = "called"
    /\ UNCHANGED <<cls, v, v0, hist, err, steps, aux, cur>>

NextFunctor ==
    \/ CallOb \/ CallTy \/ CallBox \/ CallDiagram \/ CallPython
    \/ FunctorStep \/ PythonStep \/ FoldEnd

SpecFunctor == InitFunctor /\ [][NextFunctor]_vars

(***************************************************************************)
(* C9.  Functor homomorphism.  For any functor F, a rigid Functor or a     *)
(* PythonFunctor, and diagrams f, g that compose, F(f >> g) == F(f) >> F(g)*)
(* and for any diagrams f, g, F(f @ g) == F(f) @ F(g), an unknown box      *)
(* making both sides raise the same KeyError.  In the layer-by-layer fold  *)
(* the running scan type is the codomain reached so far and the result's   *)
(* codomain is its image, so that every composition                        *)
(* result >> id(F(left)) @ F(box) @ id(F(right)) is type-compatible: the   *)
(* fold never raises an AxiomError.                                        *)
(***************************************************************************)
IsFold == aux.op \in {"then", "tensor"}

ImageOfParts ==
    LET Fg == IF "kind" \in DOMAIN aux.g THEN FunctorBox(aux.F, aux.g)
              ELSE FunctorDiagram(aux.F, aux.g)
    IN  Composite(aux.op, FunctorDiagram(aux.F, aux.f), Fg)

\* F(f) >> F(g) or F(f) @ F(g) for the PythonFunctor F.
PythonImageOfParts ==
    LET Ff == PythonCall(aux.F, aux.f)
        Fg == PythonCall(aux.F, aux.g)
    IN  IF aux.op = "then" THEN FunctionThen(Ff, Fg) ELSE FunctionTensor(Ff, Fg)

C9_Rigid ==
    (IsFold /\ aux.target = "rigid") =>
        /\ pc = "raised" => (err = "KeyError" /\ ImageOfParts = Raised("KeyError"))
        /\ cur.scan = Reached(v0, cur.i)
        /\ v.dom = FunctorTy(aux.F, v0.dom)
        /\ v.cod = FunctorTy(aux.F, cur.scan)
        /\ pc = "called" => v = ImageOfParts

C9_Python ==
    (IsFold /\ aux.target = "python") =>
        /\ pc = "raised" =>
              (err = "KeyError" /\ PythonImageOfParts = Raised("KeyError"))
        /\ cur.scan = Reached(v0, cur.i)
        /\ v.dom = PythonTy(aux.F, v0.dom)
        /\ v.cod = PythonTy(aux.F, cur.scan)
        /\ pc = "called" =>
              /\ cur.scan = v0.cod /\ cur.i = Len(v0.inside)
              /\ ~IsRaised(PythonImageOfParts)
              /\ FunctionEq(v, PythonImageOfParts)

C9_FunctorHomomorphism == C9_Rigid /\ C9_Python

(***************************************************************************)
(* C10.  Functor on a wound box.  For a Box b, not a Cup or a Cap, of      *)
(* winding z # 0, F(b) asks the arrow mapping only for the box of winding  *)
(* 0 that z applications of .l (z > 0) or -z applications of .r (z < 0)    *)
(* make of b, and returns its image with .r applied z times (z > 0) or .l  *)
(* applied -z times (z < 0): an arrow F(b.dom) -> F(b.cod).  The arrow     *)
(* mapping is never asked for a box of winding other than 0.               *)
(***************************************************************************)
IsWoundCall == aux.op = "box" /\ aux.f.kind = "Box" /\ aux.f.z # 0

Unwound(b) ==
    CASE b.z = 1 -> BoxL(b)
      [] b.z = 2 -> BoxL(BoxL(b))
      [] b.z = 0 - 1 -> BoxR(b)
      [] b.z = 0 - 2 -> BoxR(BoxR(b))

Wound(d, z) ==
    CASE z = 1 -> DiagramR(d)
      [] z = 2 -> DiagramR(DiagramR(d))
      [] z = 0 - 1 -> DiagramL(d)
      [] z = 0 - 2 -> DiagramL(DiagramL(d))

C10_WoundBox ==
    /\ (aux.target = "rigid" /\ aux.op \in {"box", "then", "tensor"}) =>
          \A i \in 1..Len(hist) : hist[i].kind = "Box" /\ hist[i].z = 0
    /\ IsWoundCall =>
          /\ hist = <<Unwound(aux.f)>>
          /\ hist[1].name = aux.f.name
          /\ pc = "raised" <=> hist[1].name \notin aux.F.names
          /\ pc = "raised" => err = "KeyError"
          /\ pc = "called" =>
                /\ v = Wound(ArImage(aux.F, hist[1]), aux.f.z)
                /\ v.dom = FunctorTy(aux.F, aux.f.dom)
                /\ v.cod = FunctorTy(aux.F, aux.f.cod)

C10_Witness ==
    /\ IsWoundCall /\ pc = "called"
    /\ aux.f.z = 2 /\ aux.f.dom # Unit /\ aux.f.cod # Unit /\ aux.F.deep
    /\ hist = <<Box(aux.f.name, TyL(TyL(aux.f.dom)), TyL(TyL(aux.f.cod)), 0)>>
    /\ Len(v.inside) = 2
    /\ v = DiagramR(DiagramR(ArImage(aux.F, hist[1])))

(***************************************************************************)
(* C11.  Functor on a wound object.  For Ob(name, z) with z # 0 and a      *)
(* target whose types have the adjoint needed (.r for z > 0, .l for        *)
(* z < 0), F(Ob(name, z)) is F(Ob(name, 0)) with .r applied z times        *)
(* (z > 0) or .l applied -z times (z < 0), and the recursion reaches       *)
(* winding 0 after exactly |z| further calls.  For a target without that   *)
(* adjoint, F(Ob(name, z)) is the image of Ob(name, 0) reversed, for every *)
(* z # 0, and nothing is raised.                                           *)
(***************************************************************************)
IsWoundOb == aux.op = "ob" /\ aux.f.z # 0

ImageOfBase == aux.F.ob[aux.f.name]

C11_WoundObject ==
    IsWoundOb =>
        /\ pc = "called" /\ err = "none" /\ cls = "Ty"
        /\ (aux.f.z > 0 /\ "r" \in aux.F.adjoints) =>
              /\ aux.f.z = 1 => v = TyR(ImageOfBase)
              /\ aux.f.z = 2 => v = TyR(TyR(ImageOfBase))
              /\ steps = aux.f.z
        /\ (aux.f.z < 0 /\ "l" \in aux.F.adjoints) =>
              /\ aux.f.z = 0 - 1 => v = TyL(ImageOfBase)
              /\ aux.f.z = 0 - 2 => v = TyL(TyL(ImageOfBase))
              /\ steps = 0 - aux.f.z
        /\ (aux.f.z > 0 /\ "r" \notin aux.F.adjoints) =>
              (v = Reversed(ImageOfBase) /\ steps = 1)
        /\ (aux.f.z < 0 /\ "l" \notin aux.F.adjoints) =>
              (v = Reversed(ImageOfBase) /\ steps = 1)
        /\ Len(v) = Len(ImageOfBase)

C11_Witness ==
    /\ IsWoundOb /\ pc = "called"
    /\ aux.f.z = 0 - 2 /\ aux.F.adjoints = {"l"} /\ Len(ImageOfBase) = 2
    /\ v = <<Ob("b", 0 - 2), Ob("a", 0 - 1)>> /\ steps = 2
    /\ v # Reversed(ImageOfBase)

(***************************************************************************)
(* Diagram.curry, Diagram.cup and compact.Diagram.trace.                   *)
(***************************************************************************)
Curry(d, n, left) ==
    IF left
    THEN LET base == Slice(d.dom, 0, n)
             exponent == Slice(d.dom, n, Len(d.dom))
         IN  Then(Tensor(Id(base), Caps(exponent, TyL(exponent))),
                  Tensor(d, Id(TyL(exponent))))
    ELSE LET offset == Len(d.dom) - n
             base == Slice(d.dom, offset, Len(d.dom))
             exponent == Slice(d.dom, 0, offset)
         IN  Then(Tensor(Caps(TyR(exponent), exponent), Id(base)),
                  Tensor(Id(TyR(exponent)), d))

\* raise ValueError(f'Indices {x, y} are out of range.')
OutOfRange == Raised("ValueError: indices out of range")

\* Swap is not a name of the module rigid: to evaluate it raises NameError.
Swap(t0, t1) == Raised("NameError")

\* self >>= Id(self.cod[:i]) @ Swap(t0, t1) @ Id(self.cod[i + 2:]), for i in
\* range(i, stop).
RECURSIVE CupSwaps(_, _, _)
CupSwaps(d, i, stop) ==
    IF IsRaised(d) \/ i >= stop THEN d
    ELSE CupSwaps(Then(d, Tensor(Tensor(Id(Slice(d.cod, 0, i)),
                                        BoxDiagram(Swap(Slice(d.cod, i, i + 1),
                                                        Slice(d.cod, i + 1, i + 2)))),
                                 Id(Slice(d.cod, i + 2, Len(d.cod))))),
                  i + 1, stop)

\* self >>= Id(self.cod[:y - 1]) @ Cup(t0, t1) @ Id(self.cod[y + 1:])
CupLast(d, y) ==
    IF IsRaised(d) THEN d
    ELSE Then(d, Tensor(Tensor(Id(Slice(d.cod, 0, y - 1)),
                               BoxDiagram(Cup(Slice(d.cod, y - 1, y),
                                              Slice(d.cod, y, y + 1)))),
                        Id(Slice(d.cod, y + 1, Len(d.cod)))))

\* A cup that takes its indices in the order given.
DiagramCup_AsGiven(d, x, y) ==
    IF Min(x, y) < 0 \/ Max(x, y) >= Len(d.cod) THEN OutOfRange
    ELSE CupLast(CupSwaps(d, x, y - 1), y)

DiagramCup(d, x, y) ==
    IF Min(x, y) < 0 \/ Max(x, y) >= Len(d.cod) THEN OutOfRange
    ELSE CupLast(CupSwaps(d, Min(x, y), Max(x, y) - 1), Max(x, y))

(***************************************************************************)
(* compact.py: the types of a compact diagram are pivotal, the left and    *)
(* the right adjoint of an object are the same and windings count modulo   *)
(* 2.  Cups and caps are rigid.py's, over these types.                     *)
(***************************************************************************)
PivotalTyR(t) ==
    [i \in 1..Len(t) |->
        Ob(t[Len(t) + 1 - i].name, (t[Len(t) + 1 - i].z + 1) % 2)]

\* A diagram all of whose types are pivotal.
IsCompact(d) ==
    LET IsPivotalTy(t) == \A i \in 1..Len(t) : t[i].z \in {0, 1}
    IN  /\ IsPivotalTy(d.dom)
        /\ \A i \in 1..Len(d.inside) :
              /\ IsPivotalTy(d.inside[i].left)
              /\ IsPivotalTy(d.inside[i].right)
              /\ IsPivotalTy(d.inside[i].box.dom)
              /\ IsPivotalTy(d.inside[i].box.cod)

\* Cup(left, right) or Cap(left, right) of compact.py, as a diagram.
CompactFactory(factory, left, right) ==
    IF Len(left) # 1 \/ Len(right) # 1 THEN Raised("ValueError")
    ELSE IF PivotalTyR(left) # right /\ left # PivotalTyR(right)
    THEN Raised("AxiomError")
    ELSE BoxDiagram([kind |-> factory, name |-> factory,
                     dom |-> IF factory = "Cup" THEN left \o right ELSE Unit,
                     cod |-> IF factory = "Cup" THEN Unit ELSE left \o right,
                     z |-> 0, left |-> left, right |-> right])

RECURSIVE CompactNesting(_, _, _)
CompactNesting(factory, x, y) ==
    IF Len(x) = 0 THEN Id(Slice(x, 0, 0))
    ELSE IF Len(x) = 1 THEN CompactFactory(factory, x, y)
    ELSE IF Len(y) = 0 THEN Raised("IndexError")
    ELSE LET x0 == Slice(x, 0, 1)
             yl == Slice(y, Len(y) - 1, Len(y))
             head == CompactFactory(factory, x0, yl)
             rest == Tensor(Tensor(Id(x0),
                                   CompactNesting(factory, Slice(x, 1, Len(x)),
                                                  Slice(y, 0, Len(y) - 1))),
                            Id(yl))
         IN  IF IsRaised(head) THEN head
             ELSE IF Len(head.dom) # 0 THEN Then(rest, head)
             ELSE Then(head, rest)

\* self.caps and self.cups are nesting(cap_factory) and nesting(cup_factory).
Trace(d, n) ==
    LET traced == Slice(d.dom, 0 - n, Len(d.dom))
        closed == Slice(d.cod, 0 - n, Len(d.cod))
    IN  Then(Then(Tensor(Id(Slice(d.dom, 0, 0 - n)),
                         CompactNesting("Cap", traced, PivotalTyR(traced))),
                  Tensor(d, Id(PivotalTyR(traced)))),
             Tensor(Id(Slice(d.cod, 0, 0 - n)),
                    CompactNesting("Cup", closed, PivotalTyR(closed))))

(***************************************************************************)
(* Sessions of one operation on a diagram: v0 is the diagram d, aux the    *)
(* operation and its arguments, v the diagram returned (none when the      *)
(* operation raises, err naming the exception).                            *)
(***************************************************************************)
c0 == a0 \o b0 \o TyR(a0)

OpRoots ==
    {Unit, a0, b0, a0 \o b0, a0 \o TyR(a0), TyL(a0) \o a0, c0,
     b0 \o a0 \o TyR(a0)}

OpBoxes ==
    {Box("f", a0, b0, 0), Box("g", Unit, a0 \o TyR(a0), 0),
     Box("h", b0, Unit, 0), Box("k", a0 \o b0, b0 \o b0, 0),
     Cup(a0, TyR(a0)), Cap(a0, TyL(a0))}

OpDiagrams == Grown(MaxLayers - 1, OpBoxes, OpRoots)

\* The indices and the numbers of wires given to the operations.
OpIndices == (0 - 1)..3

OpCounts == 0..3

Operation(op, n, left, x, y) ==
    [op |-> op, n |-> n, left |-> left, x |-> x, y |-> y]

InitOps ==
    /\ cls = "None" /\ v = NoValue /\ v0 = NoValue
    /\ hist = << >> /\ err = "none"
    /\ aux = Operation("none", 0, FALSE, 0, 0)
    /\ pc = "new" /\ steps = 0 /\ cur = NoCursor

Receive ==
    /\ pc = "new"
    /\ \E d \in OpDiagrams :
          /\ v0' = d /\ v' = d /\ cls' = "Diagram" /\ pc' = "built"
          /\ UNCHANGED <<hist, err, aux, steps, cur>>

Returned(d, operation) ==
    /\ cls' = IF IsRaised(d) THEN "None" ELSE "Diagram"
    /\ v' = IF IsRaised(d) THEN NoValue ELSE d
    /\ err' = IF IsRaised(d) THEN d.exc ELSE "none"
    /\ pc' = IF IsRaised(d) THEN "raised" ELSE "returned"
    /\ aux' = operation
    /\ UNCHANGED <<v0, hist, steps, cur>>

CurryOp ==
    /\ pc = "built"
    /\ \E n \in OpCounts, left \in BOOLEAN :
          /\ n <= Len(v0.dom)
          /\ Returned(Curry(v0, n, left), Operation("curry", n, left, 0, 0))

TransposeCall ==
    /\ pc = "built"
    /\ \E left \in BOOLEAN :
          Returned(Transpose(v0, left), Operation("transpose", 0, left, 0, 0))

CupOp ==
    /\ pc = "built"
    /\ \E x \in OpIndices, y \in OpIndices :
          Returned(DiagramCup(v0, x, y), Operation("cup", 0, FALSE, x, y))

TraceOp ==
    /\ pc = "built" /\ IsCompact(v0)
    /\ \E n \in OpCounts :
          /\ n <= Min(Len(v0.dom), Len(v0.cod))
          /\ Returned(Trace(v0, n), Operation("trace", n, FALSE, 0, 0))

NextOps == Receive \/ CurryOp \/ TransposeCall \/ CupOp \/ TraceOp

SpecOps == InitOps /\ [][NextOps]_vars

(***************************************************************************)
(* C12.  curry(n, left) converts exactly n wires of the domain into        *)
(* codomain wires: for 0 <= n <= len(d.dom), d.curry(n, left) is           *)
(* well-typed, its domain has len(d.dom) - n wires and its codomain        *)
(* len(d.cod) + n wires, the moved wires being the last n (left) or the    *)
(* first n (right) wires of d.dom, adjointed.                              *)
(***************************************************************************)
IsCurry == aux.op = "curry" /\ 0 <= aux.n /\ aux.n <= Len(v0.dom)

C12_CurryMovesN ==
    IsCurry =>
        /\ pc = "returned" /\ WellTyped(v)
        /\ Len(v.dom) = Len(v0.dom) - aux.n
        /\ Len(v.cod) = Len(v0.cod) + aux.n
        /\ aux.left =>
              /\ v.dom = Slice(v0.dom, 0, Len(v0.dom) - aux.n)
              /\ v.cod = v0.cod
                           \o TyL(Slice(v0.dom, Len(v0.dom) - aux.n, Len(v0.dom)))
        /\ ~aux.left =>
              /\ v.dom = Slice(v0.dom, aux.n, Len(v0.dom))
              /\ v.cod = TyR(Slice(v0.dom, 0, aux.n)) \o v0.cod

(***************************************************************************)
(* C13.  Diagram.cup(x, y) fails with the index error, returning no        *)
(* diagram, whenever either index lies outside 0 .. len(d.cod) - 1.        *)
(* Indices inside that range pass the range check: given in reversed order *)
(* (x > y) they are put in order, so that d.cup(x, y) does what            *)
(* d.cup(y, x) does, and given equal (x = y) the wires y - 1 and y are     *)
(* handed to the Cup constructor, which raises ValueError for y = 0 (no    *)
(* wire y - 1), AxiomError for wires that are not adjoint, and otherwise   *)
(* cups the wires y - 1 and y.                                             *)
(***************************************************************************)
IsCup == aux.op = "cup"

InRange(i) == 0 <= i /\ i < Len(v0.cod)

IndexError == pc = "raised" /\ err = OutOfRange.exc /\ v = NoValue

OpOutcome == IF pc = "raised" THEN Raised(err) ELSE v

\* The claim as stated: reversed and equal indices fail as well, with a
\* ValueError and no diagram.
C13_ReversedFails ==
    (IsCup /\ (~InRange(aux.x) \/ ~InRange(aux.y) \/ aux.x >= aux.y))
        => (pc = "raised" /\ v = NoValue
              /\ err \in {OutOfRange.exc, "ValueError"})

C13_CupIndexErrors ==
    IsCup =>
        /\ (~InRange(aux.x) \/ ~InRange(aux.y)) => (IndexError /\ cls = "None")
        /\ (InRange(aux.x) /\ InRange(aux.y)) =>
              /\ err # OutOfRange.exc
              /\ aux.x > aux.y => OpOutcome = DiagramCup(v0, aux.y, aux.x)
              /\ (aux.x = aux.y /\ aux.y = 0) =>
                    (pc = "raised" /\ err = "ValueError")
              /\ (aux.x = aux.y /\ aux.y > 0) =>
                    OpOutcome =
                        Then(v0, Tensor(Tensor(Id(Slice(v0.cod, 0, aux.y - 1)),
                                               BoxDiagram(Cup(<<v0.cod[aux.y]>>,
                                                              <<v0.cod[aux.y + 1]>>))),
                                        Id(Slice(v0.cod, aux.y + 1, Len(v0.cod)))))
              /\ (aux.x = aux.y + 1
                    /\ ~IsRaised(Cup(<<v0.cod[aux.y + 1]>>, <<v0.cod[aux.x + 1]>>))) =>
                    /\ pc = "returned"
                    /\ Len(v.inside) = Len(v0.inside) + 1
                    /\ BoxAt(v, Len(v0.inside)).kind = "Cup"
                    /\ OffsetAt(v, Len(v0.inside)) = aux.y
                    /\ v.cod = Slice(v0.cod, 0, aux.y)
                                 \o Slice(v0.cod, aux.x + 1, Len(v0.cod))

C13_Witness ==
    /\ IsCup /\ IndexError
    /\ aux.x = 0 /\ aux.y = Len(v0.cod) /\ Len(v0.cod) = 2
    /\ v0.cod = a0 \o TyR(a0) /\ Len(v0.inside) = 1

(***************************************************************************)
(* Boxes over PRO, whose types are their own adjoints, and Box.__eq__.     *)
(***************************************************************************)
\* PRO(n): n wires of the one generating object.
PRO(n) == [i \in 1..n |-> Ob("1", 0)]

\* PRO.l and PRO.r: return self.
ProL(t) == t

ProR(t) == t

\* Box.l and Box.r of a box whose dom and cod are PRO types.
ProBoxL(b) == Box(b.name, ProL(b.dom), ProL(b.cod), b.z - 1)

ProBoxR(b) == Box(b.name, ProR(b.dom), ProR(b.cod), b.z + 1)

\* cat.Box.__eq__: the names, the domains and the codomains agree.
CatBoxEq(b, c) == b.name = c.name /\ b.dom = c.dom /\ b.cod = c.cod

\* An equality that leaves the winding to cat.Box.__eq__, which ignores it.
BoxEq_IgnoresZ(b, c) == CatBoxEq(b, c)

\* Box.__eq__ for two boxes.
BoxEq(b, c) == b.z = c.z /\ CatBoxEq(b, c)

(***************************************************************************)
(* Sessions on one box: v0 is the box b as constructed, over Ty            *)
(* (aux.op = "Box") or over PRO (aux.op = "ProBox"), hist the adjoints     *)
(* applied to it and v the box they made of it.                            *)
(***************************************************************************)
MaxAdjoints == MaxOps + 1

InitBox ==
    /\ cls = "None" /\ v = NoValue /\ v0 = NoValue
    /\ hist = << >> /\ err = "none" /\ aux = Args("none", Unit, Unit)
    /\ pc = "new" /\ steps = 0 /\ cur = NoCursor

MakeBox ==
    /\ pc = "new"
    /\ \E n \in {"f", "g"}, dom \in ShortTypes, cod \in ShortTypes :
          Bind("Box", Box(n, dom, cod, 0), Args("Box", dom, cod))

MakeProBox ==
    /\ pc = "new"
    /\ \E n \in {"f", "g"}, i \in 0..MaxLen, j \in 0..MaxLen :
          Bind("Box", Box(n, PRO(i), PRO(j), 0), Args("ProBox", PRO(i), PRO(j)))

BoxAdjL ==
    /\ pc = "built" /\ Len(hist) < MaxAdjoints
    /\ Apply("l", IF aux.op = "ProBox" THEN ProBoxL(v) ELSE BoxL(v))

BoxAdjR ==
    /\ pc = "built" /\ Len(hist) < MaxAdjoints
    /\ Apply("r", IF aux.op = "ProBox" THEN ProBoxR(v) ELSE BoxR(v))

NextBox == MakeBox \/ MakeProBox \/ BoxAdjL \/ BoxAdjR

SpecBox == InitBox /\ [][NextBox]_vars

(***************************************************************************)
(* C14.  Box equality and non-collapse.  Two Boxes are equal iff their     *)
(* name, dom, cod and winding _z all match.  So for every generic Box b    *)
(* and every k >= 1, .l applied k times (or .r applied k times) to b gives *)
(* a box unequal to b, also over the self-adjoint types of PRO, where the  *)
(* dom and cod of the result are those of b.                               *)
(***************************************************************************)
RECURSIVE Count(_, _)
Count(h, op) ==
    IF Len(h) = 0 THEN 0
    ELSE (IF h[1] = op THEN 1 ELSE 0) + Count(Slice(h, 1, Len(h)), op)

OneAdjoint(op) == Len(hist) >= 1 /\ Count(hist, op) = Len(hist)

C14_BoxNonCollapse ==
    pc = "built" =>
        /\ BoxEq(v, v0) <=>
              (v.name = v0.name /\ v.dom = v0.dom /\ v.cod = v0.cod /\ v.z = v0.z)
        /\ BoxEq(v, v0) <=> Count(hist, "l") = Count(hist, "r")
        /\ (OneAdjoint("l") \/ OneAdjoint("r")) => ~BoxEq(v, v0)
        /\ OneAdjoint("l") => v.z = v0.z - Len(hist)
        /\ OneAdjoint("r") => v.z = v0.z + Len(hist)
        /\ aux.op = "ProBox" => (v.dom = v0.dom /\ v.cod = v0.cod)

C14_Witness ==
    /\ pc = "built" /\ aux.op = "ProBox" /\ hist = <<"l", "l", "l">>
    /\ v0.dom = PRO(2) /\ v0.cod = PRO(1)
    /\ v.dom = v0.dom /\ v.cod = v0.cod /\ v.name = v0.name
    /\ ~BoxEq(v, v0)

(***************************************************************************)
(* C15.  The adjoint of a concatenation reverses the order: for all types  *)
(* A and B, (A ++ B).l = B.l ++ A.l and (A ++ B).r = B.r ++ A.r, and the   *)
(* unit type is its own left and right adjoint.  Checked on every          *)
(* constructed type and every way to split it into A ++ B.                 *)
(***************************************************************************)
IsAdjointOfTy(op) == pc = "built" /\ cls = "Ty" /\ hist = <<op>>

C15_AdjointOfConcatenation ==
    /\ IsAdjointOfTy("l") =>
          /\ \A k \in 0..Len(v0) :
                v = TyL(Slice(v0, k, Len(v0))) \o TyL(Slice(v0, 0, k))
          /\ \A i \in 1..Len(v0) : v[i] = ObL(v0[Len(v0) + 1 - i])
    /\ IsAdjointOfTy("r") =>
          /\ \A k \in 0..Len(v0) :
                v = TyR(Slice(v0, k, Len(v0))) \o TyR(Slice(v0, 0, k))
          /\ \A i \in 1..Len(v0) : v[i] = ObR(v0[Len(v0) + 1 - i])
    /\ (pc = "built" /\ cls = "Ty" /\ Len(hist) = 1 /\ v0 = Unit) => v = Unit

C15_Witness ==
    /\ IsAdjointOfTy("l") /\ Len(v0) = MaxLen
    /\ v0[1].name # v0[MaxLen].name
    /\ v = TyL(<<v0[MaxLen]>>) \o TyL(Slice(v0, 0, MaxLen - 1))
    /\ v[1] = ObL(v0[MaxLen])

(***************************************************************************)
(* Sessions over several diagrams.  hist is the store: the diagrams        *)
(* constructed so far, each at the place it was given when constructed.    *)
(* An operation takes its operands from the store (aux.self, aux.other),   *)
(* v0 is its receiver as it was when called, v the diagram it returned     *)
(* (none when it raised, err naming the exception), steps the number of    *)
(* operations called.                                                      *)
(***************************************************************************)
StoreRoots ==
    {Id(a0), BoxDiagram(Box("f", a0, b0, 0)),
     BoxDiagram(Box("g", Unit, a0 \o TyR(a0), 0))}

MaxStore == MaxOps + 1

Operands(op, self, other) == [op |-> op, self |-> self, other |-> other]

\* A new diagram takes the next place of the store.
Allocated(store, d) == Append(store, d)

\* A cup whose self >>= ... changes the diagram self names.
Rebound_InPlace(store, i, d) == [store EXCEPT ![i] = d]

\* self >>= ... in Diagram.cup: the local name self is bound to the new
\* diagram self >> ...; the diagram at place i is not touched.
Rebound(store, i, d) == Allocated(store, d)

InitStore ==
    /\ cls = "None" /\ v = NoValue /\ v0 = NoValue
    /\ hist = << >> /\ err = "none" /\ aux = Operands("none", 0, 0)
    /\ pc = "ready" /\ steps = 0 /\ cur = NoCursor

Construct ==
    /\ Len(hist) < MaxStore - 1
    /\ \E d \in StoreRoots :
          /\ hist' = Allocated(hist, d)
          /\ v' = d /\ v0' = NoValue /\ err' = "none" /\ pc' = "returned"
          /\ aux' = Operands("new", 0, 0)
          /\ UNCHANGED <<cls, steps, cur>>

\* The operation op of the diagram at place i returns or raises d; store is
\* the store it leaves when it returns.
Finish(op, i, j, d, store) ==
    /\ v0' = hist[i]
    /\ v' = IF IsRaised(d) THEN NoValue ELSE d
    /\ err' = IF IsRaised(d) THEN d.exc ELSE "none"
    /\ pc' = IF IsRaised(d) THEN "raised" ELSE "returned"
    /\ hist' = IF IsRaised(d) THEN hist ELSE store
    /\ aux' = Operands(op, i, j)
    /\ steps' = steps + 1
    /\ UNCHANGED <<cls, cur>>

CanCall == Len(hist) < MaxStore /\ steps < MaxOps

Compose ==
    /\ CanCall
    /\ \E i \in 1..Len(hist), j \in 1..Len(hist) :
          \/ \E d \in {Then(hist[i], hist[j])} :
                Finish("then", i, j, d, Allocated(hist, d))
          \/ \E d \in {Tensor(hist[i], hist[j])} :
                Finish("tensor", i, j, d, Allocated(hist, d))

Conjugated ==
    /\ CanCall
    /\ \E i \in 1..Len(hist), left \in BOOLEAN :
          \E d \in {Conjugate(hist[i], left)} :
             Finish(IF left THEN "l" ELSE "r", i, i, d, Allocated(hist, d))

Transposed ==
    /\ CanCall
    /\ \E i \in 1..Len(hist), left \in BOOLEAN :
          \/ \E d \in {Transpose(hist[i], left)} :
                Finish("transpose", i, i, d, Allocated(hist, d))
          \/ \E d \in {Curry(hist[i], 1, left)} :
                Finish("curry", i, i, d, Allocated(hist, d))

Cupped ==
    /\ CanCall
    /\ \E i \in 1..Len(hist), x \in 0..1, y \in 0..2 :
          \E d \in {DiagramCup(hist[i], x, y)} :
             Finish("cup", i, i, d, Rebound(hist, i, d))

Normalized ==
    /\ CanCall
    /\ \E i \in 1..Len(hist) :
          \E d \in {NormalForm(hist[i], FALSE)} :
             Finish("normal_form", i, i, d, Allocated(hist, d))

\* Cup(left, right) or Cap(left, right) of two types that are not adjoint.
FailedCup ==
    /\ CanCall /\ Len(hist) >= 1
    /\ \E d \in {BoxDiagram(Cup(a0, b0)), BoxDiagram(Cap(a0, a0))} :
          Finish("Cup", 1, 1, d, Allocated(hist, d))

NextStore ==
    \/ Construct \/ Compose \/ Conjugated \/ Transposed \/ Cupped
    \/ Normalized \/ FailedCup

SpecStore == InitStore /\ [][NextStore]_vars

(***************************************************************************)
(* C16.  No operation changes an existing value.  Across every step        *)
(* (composition, tensor, .l/.r, transpose, curry, cup, normal_form, and a  *)
(* Cup/Cap construction or a composition that fails) the dom, cod and      *)
(* layers of every diagram constructed before are what they were; a step   *)
(* that raises constructs nothing; and d.cup(x, y), which rebinds self     *)
(* with >>=, and d.normal_form() return their result and leave d as it     *)
(* was when called.                                                        *)
(***************************************************************************)
Kept ==
    /\ Len(hist') >= Len(hist)
    /\ \A i \in 1..Len(hist) :
          /\ hist'[i].dom = hist[i].dom
          /\ hist'[i].cod = hist[i].cod
          /\ hist'[i].inside = hist[i].inside

ReceiverKept ==
    aux'.op \in {"cup", "normal_form"} =>
        /\ hist'[aux'.self] = v0'
        /\ v0' = hist[aux'.self]
        /\ pc' = "returned" => hist' = Append(hist, v')
        /\ (pc' = "returned" /\ aux'.op = "cup") =>
              (v' # v0' /\ Len(v'.inside) = Len(v0'.inside) + 1)

RaisedKept == pc' = "raised" => (hist' = hist /\ v' = NoValue)

C16_NoMutation == [][Kept /\ ReceiverKept /\ RaisedKept]_vars

C16_Witness ==
    /\ aux.op = "cup" /\ pc = "returned" /\ steps = 2
    /\ Len(hist) = 3 /\ aux.self = 1 /\ aux.other = 1
    /\ hist[1] = v0 /\ hist[3] = v /\ hist[2] # v0
    /\ v0 = BoxDiagram(Box("g", Unit, a0 \o TyR(a0), 0))
    /\ Len(v.inside) = 2 /\ v.cod = Unit

(***************************************************************************)
(* C17.  Transpose is well-typed.  For every well-typed diagram d no       *)
(* composition inside d.transpose(left) raises; d.transpose(left=False)    *)
(* goes from d.cod.r to d.dom.r and d.transpose(left=True) from d.cod.l to *)
(* d.dom.l; each has exactly len(d.dom) + len(d) + len(d.cod) layers: the  *)
(* caps, then the layers of d, then the cups.                              *)
(***************************************************************************)
IsTranspose == aux.op = "transpose"

KindAt(d, i) == d.inside[i].box.kind

C17_TransposeWellTyped ==
    IsTranspose =>
        /\ WellTyped(v0)
        /\ pc = "returned" /\ err = "none"
        /\ WellTyped(v)
        /\ v.dom = (IF aux.left THEN TyL(v0.cod) ELSE TyR(v0.cod))
        /\ v.cod = (IF aux.left THEN TyL(v0.dom) ELSE TyR(v0.dom))
        /\ Len(v.inside) = Len(v0.dom) + Len(v0.inside) + Len(v0.cod)
        /\ \A i \in 1..Len(v0.dom) : KindAt(v, i) = "Cap"
        /\ \A i \in 1..Len(v0.inside) :
              v.inside[Len(v0.dom) + i].box = v0.inside[i].box
        /\ \A i \in 1..Len(v0.cod) :
              KindAt(v, Len(v0.dom) + Len(v0.inside) + i) = "Cup"

C17_Witness ==
    /\ IsTranspose /\ pc = "returned" /\ ~aux.left
    /\ Len(v0.dom) = 2 /\ Len(v0.inside) = 1 /\ Len(v0.cod) = 1
    /\ v0.dom # v0.cod \o v0.cod
    /\ Len(v.inside) = 4 /\ WellTyped(v)
    /\ v.dom = TyR(v0.cod) /\ v.cod = TyR(v0.dom)

(***************************************************************************)
(* C18.  Conjugation preserves well-typedness and the order of the layers. *)
(* For every well-typed diagram d, d.l has as many layers as d, in the     *)
(* same order, layer i being (right_i.l, box_i.l, left_i.l), with          *)
(* dom = d.dom.l and cod = d.cod.l, and its layers chain from dom to cod;  *)
(* the same holds of d.r with .r.                                          *)
(***************************************************************************)
IsConjugateOf(op) ==
    /\ pc = "built" /\ hist = <<op>>
    /\ aux.op \in {"Id", "cups", "caps", "then", "transpose"}
    /\ v0 # NoValue

C18_ConjugationWellTyped ==
    /\ IsConjugateOf("l") =>
          /\ WellTyped(v0)
          /\ cls = "Diagram" /\ err = "none"
          /\ Len(v.inside) = Len(v0.inside)
          /\ \A i \in 1..Len(v0.inside) :
                /\ v.inside[i].left = TyL(v0.inside[i].right)
                /\ v.inside[i].box = BoxL(v0.inside[i].box)
                /\ v.inside[i].right = TyL(v0.inside[i].left)
                /\ LayerDom(v.inside[i]) =
                      (IF i = 1 THEN v.dom ELSE LayerCod(v.inside[i - 1]))
          /\ v.dom = TyL(v0.dom) /\ v.cod = TyL(v0.cod)
          /\ WellTyped(v)
    /\ IsConjugateOf("r") =>
          /\ WellTyped(v0)
          /\ cls = "Diagram" /\ err = "none"
          /\ Len(v.inside) = Len(v0.inside)
          /\ \A i \in 1..Len(v0.inside) :
                /\ v.inside[i].left = TyR(v0.inside[i].right)
                /\ v.inside[i].box = BoxR(v0.inside[i].box)
                /\ v.inside[i].right = TyR(v0.inside[i].left)
                /\ LayerDom(v.inside[i]) =
                      (IF i = 1 THEN v.dom ELSE LayerCod(v.inside[i - 1]))
          /\ v.dom = TyR(v0.dom) /\ v.cod = TyR(v0.cod)
          /\ WellTyped(v)

C18_Witness ==
    /\ IsConjugateOf("l") /\ cls = "Diagram"
    /\ Len(v0.inside) >= 2
    /\ v0.inside[1].left # v0.inside[1].right
    /\ v0.inside[1].box.kind = "Cap" /\ v0.inside[2].box.kind = "Box"
    /\ v.inside[1].left = TyL(v0.inside[1].right)
    /\ WellTyped(v) /\ v # v0

(***************************************************************************)
(* C19.  Diagram.cup on valid indices.  For indices 0 <= x < y <           *)
(* len(d.cod) whose wires d.cod[x] and d.cod[y] are adjoint, d.cup(x, y)   *)
(* succeeds, also when y - x >= 2, and returns d followed by y - 1 - x     *)
(* swap layers and one Cup layer; the codomain of the result is d.cod      *)
(* without the wires x and y, the others in their order.                   *)
(***************************************************************************)
IsValidCup ==
    /\ IsCup /\ 0 <= aux.x /\ aux.x < aux.y /\ aux.y < Len(v0.cod)
    /\ AreAdjoint(<<v0.cod[aux.x + 1]>>, <<v0.cod[aux.y + 1]>>)

C19_CupOnValidIndices ==
    IsValidCup =>
        /\ pc = "returned" /\ err = "none"
        /\ Len(v.inside) = Len(v0.inside) + (aux.y - 1 - aux.x) + 1
        /\ Slice(v.inside, 0, Len(v0.inside)) = v0.inside
        /\ KindAt(v, Len(v.inside)) = "Cup"
        /\ \A i \in (Len(v0.inside) + 1)..(Len(v.inside) - 1) :
              KindAt(v, i) = "Swap"
        /\ v.cod = Slice(v0.cod, 0, aux.x)
                     \o Slice(v0.cod, aux.x + 1, aux.y)
                     \o Slice(v0.cod, aux.y + 1, Len(v0.cod))

(***************************************************************************)
(* C20.  Trace traces exactly n wires.  For a compact diagram d and every  *)
(* n with 0 <= n <= min(len(d.dom), len(d.cod)) such that the last n wires *)
(* of d.dom are the last n wires of d.cod, d.trace(n) is well-typed, from  *)
(* d.dom without its last n wires to d.cod without its last n wires; in    *)
(* particular d.trace(0) has the dom and the cod of d.                     *)
(***************************************************************************)
IsTrace ==
    /\ aux.op = "trace" /\ 0 <= aux.n
    /\ aux.n <= Min(Len(v0.dom), Len(v0.cod))
    /\ SubSeq(v0.dom, Len(v0.dom) - aux.n + 1, Len(v0.dom))
          = SubSeq(v0.cod, Len(v0.cod) - aux.n + 1, Len(v0.cod))

C20_TraceTracesN ==
    IsTrace =>
        /\ pc = "returned" /\ err = "none"
        /\ WellTyped(v)
        /\ v.dom = SubSeq(v0.dom, 1, Len(v0.dom) - aux.n)
        /\ v.cod = SubSeq(v0.cod, 1, Len(v0.cod) - aux.n)

====
